---- MODULE Spec2Model ----
(***************************************************************************)
(* State engine of the todo application: the StateManager (canonical       *)
(* tasks, filter fields, undo/redo history), its projection                *)
(* (updateFilteredTasks / sortTasks) and the operations that mutate it.    *)
(*                                                                         *)
(* Representation.  A JavaScript string is a sequence of one-character     *)
(* strings, so that trim, toLowerCase and includes are computed.  A        *)
(* timestamp (ISO string of Date) is the integer clock value it denotes;   *)
(* null for dueAt / parentId / editingTask is 0.  A generated id is the    *)
(* integer drawn from the id generator.  this.state is one record; the     *)
(* keys of a record passed to setState are the keys of the JS object.      *)
(* Observers registered with subscribe are passive (they read the state    *)
(* they are handed and do not call back into the StateManager) in every    *)
(* specification but SpecRender, which follows the calls of UI.render.     *)
(***************************************************************************)
EXTENDS Integers, Sequences, FiniteSets, TLC

\* ---------------------------------------------------------------------------
\* Bounds of the model
\* ---------------------------------------------------------------------------
MaxTime == 1
MaxIds == 2
MaxActs == 2
MaxViewActs == 1
MaxLen == 3
MaxDepth == 6

\* ---------------------------------------------------------------------------
\* Program constants
\* ---------------------------------------------------------------------------
historySize == 10

Null == 0

\* ---------------------------------------------------------------------------
\* Strings
\* ---------------------------------------------------------------------------
Chars == {"a", "A", "b", "B", " "}

toLowerCaseChar(c) ==
    CASE c = "A" -> "a"
      [] c = "B" -> "b"
      [] OTHER -> c

toLowerCase(s) == [i \in 1..Len(s) |-> toLowerCaseChar(s[i])]

RECURSIVE trimStart(_)
trimStart(s) ==
    IF s # <<>> /\ Head(s) = " " THEN trimStart(Tail(s)) ELSE s

RECURSIVE trimEnd(_)
trimEnd(s) ==
    IF s # <<>> /\ s[Len(s)] = " " THEN trimEnd(SubSeq(s, 1, Len(s) - 1)) ELSE s

trim(s) == trimEnd(trimStart(s))

\* String.prototype.includes: q occurs in s as a contiguous substring
includes(s, q) ==
    \E i \in 0..(Len(s) - Len(q)) : SubSeq(s, i + 1, i + Len(q)) = q

\* Collation rank of a character at the primary level (letters regardless of
\* case; white space before letters)
primaryRank(c) ==
    CASE c = " " -> 0
      [] c \in {"a", "A"} -> 1
      [] c \in {"b", "B"} -> 2

\* Collation rank at the case level: lower case before upper case
caseRank(c) == IF c \in {"A", "B"} THEN 1 ELSE 0

\* Lexicographic comparison of two sequences of ranks
RECURSIVE lexCompare(_, _)
lexCompare(s, t) ==
    IF s = <<>> /\ t = <<>> THEN 0
    ELSE IF s = <<>> THEN -1
    ELSE IF t = <<>> THEN 1
    ELSE IF Head(s) < Head(t) THEN -1
    ELSE IF Head(s) > Head(t) THEN 1
    ELSE lexCompare(Tail(s), Tail(t))

\* String.prototype.localeCompare: primary differences decide first, case
\* differences only between strings equal at the primary level
localeCompare(s, t) ==
    LET p == lexCompare([i \in 1..Len(s) |-> primaryRank(s[i])],
                        [i \in 1..Len(t) |-> primaryRank(t[i])])
    IN IF p # 0 THEN p
       ELSE lexCompare([i \in 1..Len(s) |-> caseRank(s[i])],
                       [i \in 1..Len(t) |-> caseRank(t[i])])

\* ---------------------------------------------------------------------------
\* TASK_PRIORITIES
\* ---------------------------------------------------------------------------
\* TASK_PRIORITIES[p] || TASK_PRIORITIES.none, then .order
priorityOrder(p) ==
    CASE p = "high" -> 3
      [] p = "medium" -> 2
      [] p = "low" -> 1
      [] OTHER -> 0

\* ---------------------------------------------------------------------------
\* Projection: sortTasks and updateFilteredTasks
\* ---------------------------------------------------------------------------
\* compareTasks with the priority difference taken the wrong way round
compareTasks_priorityAscending(a, b, sortType) ==
    CASE sortType = "due" ->
            IF a.dueAt = Null /\ b.dueAt = Null THEN b.createdAt - a.createdAt
            ELSE IF a.dueAt = Null THEN 1
            ELSE IF b.dueAt = Null THEN -1
            ELSE a.dueAt - b.dueAt
      [] sortType = "priority" ->
            LET priorityDiff == priorityOrder(a.priority) - priorityOrder(b.priority)
            IN IF priorityDiff # 0 THEN priorityDiff ELSE b.createdAt - a.createdAt
      [] sortType = "title" -> localeCompare(a.title, b.title)
      [] sortType = "manual" -> a.order - b.order
      [] OTHER -> b.createdAt - a.createdAt

\* The comparator of sortTasks: negative when a sorts before b
compareTasks(a, b, sortType) ==
    CASE sortType = "due" ->
            IF a.dueAt = Null /\ b.dueAt = Null THEN b.createdAt - a.createdAt
            ELSE IF a.dueAt = Null THEN 1
            ELSE IF b.dueAt = Null THEN -1
            ELSE a.dueAt - b.dueAt
      [] sortType = "priority" ->
            LET priorityDiff == priorityOrder(b.priority) - priorityOrder(a.priority)
            IN IF priorityDiff # 0 THEN priorityDiff ELSE b.createdAt - a.createdAt
      [] sortType = "title" -> localeCompare(a.title, b.title)
      [] sortType = "manual" -> a.order - b.order
      [] OTHER -> b.createdAt - a.createdAt

\* Array.prototype.sort is stable: an element is inserted after every element
\* that does not compare greater than it
RECURSIVE insertSorted(_, _, _)
insertSorted(sorted, t, sortType) ==
    IF sorted = <<>> THEN <<t>>
    ELSE IF compareTasks(t, Head(sorted), sortType) < 0 THEN <<t>> \o sorted
    ELSE <<Head(sorted)>> \o insertSorted(Tail(sorted), t, sortType)

RECURSIVE sortFrom(_, _, _)
sortFrom(sorted, rest, sortType) ==
    IF rest = <<>> THEN sorted
    ELSE sortFrom(insertSorted(sorted, Head(rest), sortType), Tail(rest), sortType)

sortTasks(tasks, sortType) == sortFrom(<<>>, tasks, sortType)

\* matchesFilter that lets every task through whatever the filter
matchesFilter_ignoresStatus(task, currentFilter) == TRUE

matchesFilter(task, currentFilter) ==
    CASE currentFilter = "active" -> ~task.completed
      [] currentFilter = "completed" -> task.completed
      [] OTHER -> TRUE

\* The search filter: applied when searchQuery.trim() is non-empty, with
\* query = searchQuery.toLowerCase()
matchesSearch(task, searchQuery) ==
    IF trim(searchQuery) # <<>>
    THEN LET query == toLowerCase(searchQuery)
         IN \/ includes(toLowerCase(task.title), query)
            \/ (task.notes # <<>> /\ includes(toLowerCase(task.notes), query))
            \/ \E i \in 1..Len(task.tags) : includes(toLowerCase(task.tags[i]), query)
    ELSE TRUE

\* matchesTags with some() in place of every() over the filters
matchesTags_anyFilter(task, activeTagFilters) ==
    IF Len(activeTagFilters) > 0
    THEN \E f \in 1..Len(activeTagFilters) :
            \E i \in 1..Len(task.tags) :
                toLowerCase(task.tags[i]) = toLowerCase(activeTagFilters[f])
    ELSE TRUE

matchesTags(task, activeTagFilters) ==
    IF Len(activeTagFilters) > 0
    THEN \A f \in 1..Len(activeTagFilters) :
            \E i \in 1..Len(task.tags) :
                toLowerCase(task.tags[i]) = toLowerCase(activeTagFilters[f])
    ELSE TRUE

\* updateFilteredTasks: the value assigned to state.filteredTasks
project(tasks, currentFilter, searchQuery, activeTagFilters, currentSort) ==
    LET byFilter(t) == matchesFilter(t, currentFilter)
        bySearch(t) == matchesSearch(t, searchQuery)
        byTags(t) == matchesTags(t, activeTagFilters)
    IN sortTasks(SelectSeq(SelectSeq(SelectSeq(tasks, byFilter), bySearch), byTags),
                 currentSort)

updateFilteredTasks(st) ==
    [st EXCEPT !.filteredTasks =
        project(st.tasks, st.currentFilter, st.searchQuery, st.activeTagFilters,
                st.currentSort)]

\* ---------------------------------------------------------------------------
\* Inputs
\* ---------------------------------------------------------------------------
\* taskData objects handed to addTask (title, dueAt, priority, tags as
\* handleAddTask builds them)
Drafts ==
    { [title |-> <<"B", " ">>, dueAt |-> 1, priority |-> "high",
       tags |-> << <<"A">> >>] }

\* updates objects handed to updateTask (as handleEditSubmit builds them)
Updates ==
    { [title |-> <<"b">>, notes |-> <<"a">>, dueAt |-> Null, priority |-> "low",
       tags |-> << <<"a">>, <<"b">> >>] }

Filters == {"all", "active", "completed"}
SortTypes == {"created", "due", "priority", "title", "manual"}
TagNames == {<<"a">>, <<"B">>}


\* A task persisted by an earlier session
storedTask(id, title, completed, priority, order) ==
    [id |-> id, title |-> title, notes |-> <<>>, completed |-> completed,
     createdAt |-> 0, updatedAt |-> 0, dueAt |-> Null, priority |-> priority,
     tags |-> <<>>, parentId |-> Null, order |-> order]

\* What Storage.load resolves with: the defaults when nothing was persisted,
\* or the snapshot of an earlier session
defaultData ==
    [tasks |-> <<>>, currentFilter |-> "all", currentSort |-> "created",
     activeTagFilters |-> <<>>, searchQuery |-> <<>>, theme |-> "auto"]

StoredData ==
    { defaultData,
      [defaultData EXCEPT !.tasks =
          << storedTask(11, <<"b">>, FALSE, "low", 0),
             storedTask(12, <<"a">>, TRUE, "", 1) >>,
                          !.currentFilter = "active",
                          !.currentSort = "title"] }

\* ---------------------------------------------------------------------------
\* State
\* ---------------------------------------------------------------------------
VARIABLES
    state,          \* this.state
    history,        \* this.history: sequence of [prevState, action]
    historyIndex,   \* this.historyIndex (-1 when nothing can be undone)
    storage,        \* the persisted snapshot behind Storage.load
    now,            \* the clock read by new Date()
    nextId,         \* the next id Utils.generateId returns
    lastOp,         \* the operation performed by the last step
    lastRet,        \* what that operation returned
    lastCalls,      \* how often it called emit() and debouncedSave()
    chain,          \* the pattern the last operations form (see chainAfter)
    snapS,          \* this.state just before the last recorded action
    snapS1,         \* state.tasks just after the last recorded action
    snapFirst,      \* this.state just after the first recorded action
    acts,           \* number of recorded actions performed
    undos,          \* number of undo() calls in a row that returned true
    loadPending,    \* loadData has been started and has not settled yet
    shared,         \* task objects of state.tasks the history also refers to
    timeout,        \* the timers of debouncedSave (see NoTimer)
    saveFailed,     \* some Storage.save call of saveToStorage was rejected
    stack,          \* number of setState calls that have not returned yet
    caches,         \* CacheStorage of the origin: cache name -> request keys
    worker          \* state of the service worker (src/sw.js)

vars == <<state, history, historyIndex, storage, now, nextId, lastOp, lastRet,
          lastCalls, chain, snapS, snapS1, snapFirst, acts, undos, loadPending, shared,
          timeout, saveFailed, stack, caches, worker>>

\* A Set of ids, and what JSON.parse(JSON.stringify(set)) yields: the plain
\* object {}, which has no has / add / delete
newSet(ids) == [isSet |-> TRUE, ids |-> ids]
plainObject == [isSet |-> FALSE, ids |-> {}]

\* The state assigned by the constructor
initialState ==
    [tasks |-> <<>>, filteredTasks |-> <<>>, selectedTasks |-> newSet({}),
     currentFilter |-> "all", currentSort |-> "created", searchQuery |-> <<>>,
     activeTagFilters |-> <<>>, theme |-> "auto", isLoading |-> TRUE,
     editingTask |-> Null]

\* Utils.deepClone = JSON.parse(JSON.stringify(obj)) on the state object:
\* strings, booleans, numbers, null and arrays of them come back equal; a Set
\* comes back as an empty plain object
deepClone(st) ==
    [k \in DOMAIN st |->
        IF k = "selectedTasks" THEN plainObject ELSE st[k]]

\* { ...a, ...b }
spread(a, b) ==
    [k \in DOMAIN a \cup DOMAIN b |-> IF k \in DOMAIN b THEN b[k] ELSE a[k]]

\* ---------------------------------------------------------------------------
\* Utils.debounce
\* ---------------------------------------------------------------------------
\* The timers of one debounced function: armed says that the timer the
\* closure variable timeout refers to is pending, stray counts the pending
\* timers it no longer refers to
NoTimer == [armed |-> FALSE, stray |-> 0]

\* clearTimeout(timeout)
clearTimeout(tm) == [tm EXCEPT !.armed = FALSE]

\* executedFunction: clearTimeout(timeout); timeout = setTimeout(later, wait)
debounce(tm) == [clearTimeout(tm) EXCEPT !.armed = TRUE]

\* ---------------------------------------------------------------------------
\* StateManager: setState, addToHistory
\* ---------------------------------------------------------------------------
NoAction == [type |-> "null"]

\* addToHistory that drops the oldest entry one entry too early
addToHistory_offByOne(m, prevState, action) ==
    LET cut == IF m.historyIndex < Len(m.history) - 1
               THEN SubSeq(m.history, 1, m.historyIndex + 1)
               ELSE m.history
        pushed == Append(cut, [prevState |-> prevState, action |-> action])
    IN IF Len(pushed) >= historySize
       THEN [m EXCEPT !.history = Tail(pushed)]
       ELSE [m EXCEPT !.history = pushed, !.historyIndex = m.historyIndex + 1]

\* addToHistory that keeps the entries after the position
addToHistory_keepsFuture(m, prevState, action) ==
    LET pushed == Append(m.history, [prevState |-> prevState, action |-> action])
    IN IF Len(pushed) > historySize
       THEN [m EXCEPT !.history = Tail(pushed)]
       ELSE [m EXCEPT !.history = pushed, !.historyIndex = m.historyIndex + 1]

\* addToHistory that never drops the oldest entry
addToHistory_withoutLimit(m, prevState, action) ==
    LET cut == IF m.historyIndex < Len(m.history) - 1
               THEN SubSeq(m.history, 1, m.historyIndex + 1)
               ELSE m.history
        pushed == Append(cut, [prevState |-> prevState, action |-> action])
    IN [m EXCEPT !.history = pushed, !.historyIndex = m.historyIndex + 1]

addToHistory(m, prevState, action) ==
    LET cut == IF m.historyIndex < Len(m.history) - 1
               THEN SubSeq(m.history, 1, m.historyIndex + 1)
               ELSE m.history
        pushed == Append(cut, [prevState |-> prevState, action |-> action])
    IN IF Len(pushed) > historySize
       THEN [m EXCEPT !.history = Tail(pushed)]
       ELSE [m EXCEPT !.history = pushed, !.historyIndex = m.historyIndex + 1]

\* needsRecompute that looks at tasks only
needsRecompute_tasksOnly(newState) == "tasks" \in DOMAIN newState

\* The condition under which setState calls updateFilteredTasks
needsRecompute(newState) ==
    \/ "tasks" \in DOMAIN newState
    \/ "currentFilter" \in DOMAIN newState
    \/ "searchQuery" \in DOMAIN newState
    \/ "activeTagFilters" \in DOMAIN newState

\* setState that takes the snapshot after merging newState
setState_snapshotAfterMerge(m, newState, action) ==
    LET merged == [m EXCEPT !.state = spread(m.state, newState)]
        prevState == deepClone(merged.state)
        recorded == IF action.type \notin {"null", "UNDO", "REDO"}
                    THEN addToHistory(merged, prevState, action)
                    ELSE merged
        projected == IF needsRecompute(newState)
                     THEN [recorded EXCEPT !.state = updateFilteredTasks(recorded.state)]
                     ELSE recorded
    IN [projected EXCEPT !.calls.emit = @ + 1, !.calls.debouncedSave = @ + 1,
                         !.timeout = debounce(@)]

\* m is the StateManager: [state, history, historyIndex], with the timers of
\* this.debouncedSave and the calls of this.emit(), this.debouncedSave() and
\* Storage.save made since the handler was entered
setState(m, newState, action) ==
    LET prevState == deepClone(m.state)
        merged == [m EXCEPT !.state = spread(m.state, newState)]
        recorded == IF action.type \notin {"null", "UNDO", "REDO"}
                    THEN addToHistory(merged, prevState, action)
                    ELSE merged
        projected == IF needsRecompute(newState)
                     THEN [recorded EXCEPT !.state = updateFilteredTasks(recorded.state)]
                     ELSE recorded
    IN [projected EXCEPT !.calls.emit = @ + 1, !.calls.debouncedSave = @ + 1,
                         !.timeout = debounce(@)]

\* ---------------------------------------------------------------------------
\* StateManager: the mutating operations.  Each yields the StateManager after
\* the call (m), what the call returned (ret) and whether it pushed a history
\* entry (rec)
\* ---------------------------------------------------------------------------
Ret(kind) == [kind |-> kind, num |-> 0]
Outcome(m, ret, rec) == [m |-> m, ret |-> ret, rec |-> rec]

\* Array.prototype.findIndex on tasks by id, 0 when absent
findIndex(tasks, taskId) ==
    IF \E i \in 1..Len(tasks) : tasks[i].id = taskId
    THEN CHOOSE i \in 1..Len(tasks) :
            /\ tasks[i].id = taskId
            /\ \A j \in 1..(i - 1) : tasks[j].id # taskId
    ELSE 0

\* taskData.key || fallback, for a key whose falsy value is falsy ('' for a
\* string, null or 0 for a number)
orElse(taskData, key, falsy, fallback) ==
    IF key \in DOMAIN taskData /\ taskData[key] # falsy
    THEN taskData[key]
    ELSE fallback

\* taskData.key || fallback, for an array (every array is truthy)
arrayOrElse(taskData, key, fallback) ==
    IF key \in DOMAIN taskData THEN taskData[key] ELSE fallback

\* addTask(taskData, addToHistory); t is the clock, id the generated id
addTask(m, taskData, addToHist, t, id) ==
    LET task == [id |-> id,
                 title |-> trim(taskData.title),
                 notes |-> orElse(taskData, "notes", <<>>, <<>>),
                 completed |-> FALSE,
                 createdAt |-> t,
                 updatedAt |-> t,
                 dueAt |-> orElse(taskData, "dueAt", Null, Null),
                 priority |-> orElse(taskData, "priority", "", ""),
                 tags |-> arrayOrElse(taskData, "tags", <<>>),
                 parentId |-> orElse(taskData, "parentId", Null, Null),
                 order |-> orElse(taskData, "order", 0, Len(m.state.tasks))]
        newTasks == Append(m.state.tasks, task)
    IN Outcome(setState(m, [tasks |-> newTasks],
                        IF addToHist THEN [type |-> "ADD_TASK", task |-> task]
                        ELSE NoAction),
               Ret("task"), addToHist)

\* updateTask that goes through setState also when the id is not found
updateTask_recordsMissing(m, taskId, updates, addToHist, t) ==
    LET taskIndex == findIndex(m.state.tasks, taskId)
    IN IF taskIndex = 0
       THEN Outcome(setState(m, [tasks |-> m.state.tasks],
                             [type |-> "UPDATE_TASK", taskId |-> taskId,
                              updates |-> updates]),
                    Ret("false"), addToHist)
       ELSE LET updatedTask ==
                    [spread(m.state.tasks[taskIndex], updates) EXCEPT !.updatedAt = t]
                newTasks == [m.state.tasks EXCEPT ![taskIndex] = updatedTask]
            IN Outcome(setState(m, [tasks |-> newTasks],
                                IF addToHist
                                THEN [type |-> "UPDATE_TASK", taskId |-> taskId,
                                      updates |-> updates]
                                ELSE NoAction),
                       Ret("task"), addToHist)

\* updateTask(taskId, updates, addToHistory)
updateTask(m, taskId, updates, addToHist, t) ==
    LET taskIndex == findIndex(m.state.tasks, taskId)
    IN IF taskIndex = 0 THEN Outcome(m, Ret("false"), FALSE)
       ELSE LET updatedTask ==
                    [spread(m.state.tasks[taskIndex], updates) EXCEPT !.updatedAt = t]
                newTasks == [m.state.tasks EXCEPT ![taskIndex] = updatedTask]
            IN Outcome(setState(m, [tasks |-> newTasks],
                                IF addToHist
                                THEN [type |-> "UPDATE_TASK", taskId |-> taskId,
                                      updates |-> updates]
                                ELSE NoAction),
                       Ret("task"), addToHist)

\* selectedTasks.delete(id) for every id of ids: a TypeError when
\* selectedTasks is not a Set
selectionDelete(m, ids) ==
    [m EXCEPT !.state.selectedTasks.ids = @ \ ids]

\* deleteTask(taskId, addToHistory)
deleteTask(m, taskId, addToHist) ==
    LET keep(task) == task.id # taskId
        newTasks == SelectSeq(m.state.tasks, keep)
        after == setState(m, [tasks |-> newTasks],
                          IF addToHist THEN [type |-> "DELETE_TASK", taskId |-> taskId]
                          ELSE NoAction)
    IN IF after.state.selectedTasks.isSet
       THEN Outcome(selectionDelete(after, {taskId}), Ret("undefined"), addToHist)
       ELSE Outcome(after, Ret("throws"), addToHist)

\* toggleTaskComplete(taskId, addToHistory)
toggleTaskComplete(m, taskId, addToHist, t) ==
    LET taskIndex == findIndex(m.state.tasks, taskId)
    IN IF taskIndex = 0 THEN Outcome(m, Ret("false"), FALSE)
       ELSE updateTask(m, taskId,
                       [completed |-> ~m.state.tasks[taskIndex].completed],
                       addToHist, t)

isCompleted(task) == task.completed
notCompleted(task) == ~task.completed

\* clearCompleted that empties the collection
clearCompleted_removesAll(m) ==
    LET completedTasks == SelectSeq(m.state.tasks, isCompleted)
    IN Outcome(setState(m, [tasks |-> <<>>],
                        [type |-> "CLEAR_COMPLETED", count |-> Len(completedTasks)]),
               [kind |-> "number", num |-> Len(completedTasks)], TRUE)

\* clearCompleted()
clearCompleted(m) ==
    LET completedTasks == SelectSeq(m.state.tasks, isCompleted)
        newTasks == SelectSeq(m.state.tasks, notCompleted)
    IN Outcome(setState(m, [tasks |-> newTasks],
                        [type |-> "CLEAR_COMPLETED", count |-> Len(completedTasks)]),
               [kind |-> "number", num |-> Len(completedTasks)], TRUE)

\* bulkComplete(taskIds)
bulkComplete(m, taskIds, t) ==
    LET newTasks == [i \in 1..Len(m.state.tasks) |->
                        IF m.state.tasks[i].id \in taskIds
                        THEN [m.state.tasks[i] EXCEPT !.completed = TRUE,
                                                      !.updatedAt = t]
                        ELSE m.state.tasks[i]]
    IN Outcome(setState(m, [tasks |-> newTasks],
                        [type |-> "BULK_COMPLETE", taskIds |-> taskIds]),
               Ret("undefined"), TRUE)

\* bulkDelete(taskIds)
bulkDelete(m, taskIds) ==
    LET keep(task) == task.id \notin taskIds
        newTasks == SelectSeq(m.state.tasks, keep)
        after == setState(m, [tasks |-> newTasks],
                          [type |-> "BULK_DELETE", taskIds |-> taskIds])
    IN IF after.state.selectedTasks.isSet \/ taskIds = {}
       THEN Outcome(selectionDelete(after, taskIds), Ret("undefined"), TRUE)
       ELSE Outcome(after, Ret("throws"), TRUE)

\* bulkSetPriority that sets the priority of every task of the collection
bulkSetPriority_everyTask(m, taskIds, priority, t) ==
    LET newTasks == [i \in 1..Len(m.state.tasks) |->
                        [m.state.tasks[i] EXCEPT !.priority = priority,
                                                 !.updatedAt = t]]
    IN Outcome(setState(m, [tasks |-> newTasks],
                        [type |-> "BULK_SET_PRIORITY", taskIds |-> taskIds,
                         priority |-> priority]),
               Ret("undefined"), TRUE)

\* bulkSetPriority(taskIds, priority)
bulkSetPriority(m, taskIds, priority, t) ==
    LET newTasks == [i \in 1..Len(m.state.tasks) |->
                        IF m.state.tasks[i].id \in taskIds
                        THEN [m.state.tasks[i] EXCEPT !.priority = priority,
                                                      !.updatedAt = t]
                        ELSE m.state.tasks[i]]
    IN Outcome(setState(m, [tasks |-> newTasks],
                        [type |-> "BULK_SET_PRIORITY", taskIds |-> taskIds,
                         priority |-> priority]),
               Ret("undefined"), TRUE)

\* undo() that hands setState an action it records
undo_recordsItself(m) ==
    IF m.historyIndex >= 0
    THEN LET entry == m.history[m.historyIndex + 1]
             stepped == [m EXCEPT !.historyIndex = m.historyIndex - 1]
         IN Outcome(setState(stepped, entry.prevState, [type |-> "RESTORE"]),
                    Ret("true"), FALSE)
    ELSE Outcome(m, Ret("false"), FALSE)

\* undo() that goes through setState also when there is nothing to undo
undo_notifiesWhenRefused(m) ==
    IF m.historyIndex >= 0
    THEN LET entry == m.history[m.historyIndex + 1]
             stepped == [m EXCEPT !.historyIndex = m.historyIndex - 1]
         IN Outcome(setState(stepped, entry.prevState, [type |-> "UNDO"]),
                    Ret("true"), FALSE)
    ELSE Outcome(setState(m, [isLoading |-> m.state.isLoading], [type |-> "UNDO"]),
                 Ret("false"), FALSE)

\* undo()
undo(m) ==
    IF m.historyIndex >= 0
    THEN LET entry == m.history[m.historyIndex + 1]
             stepped == [m EXCEPT !.historyIndex = m.historyIndex - 1]
         IN Outcome(setState(stepped, entry.prevState, [type |-> "UNDO"]),
                    Ret("true"), FALSE)
    ELSE Outcome(m, Ret("false"), FALSE)

\* executeAction(action): the switch has cases for four action types
executeAction(m, action, t, id) ==
    CASE action.type = "ADD_TASK" -> addTask(m, action.task, FALSE, t, id)
      [] action.type = "UPDATE_TASK" ->
            updateTask(m, action.taskId, action.updates, FALSE, t)
      [] action.type = "DELETE_TASK" -> deleteTask(m, action.taskId, FALSE)
      [] action.type = "TOGGLE_COMPLETE" ->
            toggleTaskComplete(m, action.taskId, FALSE, t)
      [] OTHER -> Outcome(m, Ret("undefined"), FALSE)

\* redo()
redo(m, t, id) ==
    IF m.historyIndex < Len(m.history) - 1
    THEN LET stepped == [m EXCEPT !.historyIndex = m.historyIndex + 1]
             action == stepped.history[stepped.historyIndex + 1].action
             done == executeAction(stepped, action, t, id)
         IN Outcome(done.m,
                    IF done.ret.kind = "throws" THEN Ret("throws") ELSE Ret("true"),
                    FALSE)
    ELSE Outcome(m, Ret("false"), FALSE)

\* Object identity.  A task of state.tasks can be the very object a history
\* entry holds: the task of an ADD_TASK action (addTask hands the same object
\* to newTasks and to the action), or a task of the prevState an undo() has
\* installed (setState spreads entry.prevState into this.state).  shared
\* holds, for each such task id, the entry (position in history, from 1) and
\* the part of the entry that refers to the object.
sharedTask(id, entry) == [id |-> id, entry |-> entry, part |-> "task"]
sharedPrev(id, entry) == [id |-> id, entry |-> entry, part |-> "prevState"]

\* The tasks with these ids were replaced by new objects or left the collection
unshare(sh, ids) == {x \in sh : x.id \notin ids}

\* Array.prototype.splice(index, 1) and splice(index, 0, item), index from 1
removeAt(seq, i) == SubSeq(seq, 1, i - 1) \o SubSeq(seq, i + 1, Len(seq))
insertAt(seq, i, item) == SubSeq(seq, 1, i - 1) \o <<item>> \o SubSeq(seq, i, Len(seq))

\* The forEach of reorderTasks: order = index (from 0), updatedAt = now
renumber(tasks, t) ==
    [i \in 1..Len(tasks) |-> [tasks[i] EXCEPT !.order = i - 1, !.updatedAt = t]]

\* reorderTasks that moves the task and leaves the order fields as they were
reorderTasks_keepsOrder(m, sh, draggedId, targetId, insertAfter, t) ==
    LET draggedIndex == findIndex(m.state.tasks, draggedId)
        targetIndex == findIndex(m.state.tasks, targetId)
        removed == m.state.tasks[draggedIndex]
        newIndex == IF insertAfter THEN targetIndex ELSE targetIndex
        allTasks == insertAt(removeAt(m.state.tasks, draggedIndex), newIndex,
                             removed)
    IN Outcome(setState(m, [tasks |-> allTasks], NoAction), Ret("undefined"), FALSE)

\* UI.reorderTasks(draggedTask, targetTask, event); insertAfter is
\* event.clientY > midY, t the clock.  draggedId and targetId are ids of
\* tasks of m.state.tasks (the drop handler is bound to a rendered task).
\* Indexes count from 1 here: the JavaScript index targetIndex, taken before
\* the dragged task is removed, is position targetIndex of the shortened
\* array.  The forEach writes order and updatedAt into the task objects
\* themselves, so every history entry that holds one of these objects (sh)
\* sees the new values.
reorderTasks(m, sh, draggedId, targetId, insertAfter, t) ==
    LET draggedIndex == findIndex(m.state.tasks, draggedId)
        targetIndex == findIndex(m.state.tasks, targetId)
        removed == m.state.tasks[draggedIndex]
        newIndex == IF insertAfter THEN targetIndex ELSE targetIndex
        allTasks == renumber(insertAt(removeAt(m.state.tasks, draggedIndex),
                                      newIndex, removed), t)
        written(id) == allTasks[findIndex(allTasks, id)]
        seen(k, entry) ==
            [entry EXCEPT
                !.action = IF \E x \in sh : x.entry = k /\ x.part = "task"
                           THEN [@ EXCEPT !.task = written(@.id)]
                           ELSE @,
                !.prevState.tasks =
                    [i \in 1..Len(@) |->
                        IF sharedPrev(@[i].id, k) \in sh THEN written(@[i].id)
                        ELSE @[i]]]
        mutated == [m EXCEPT !.history = [k \in 1..Len(@) |-> seen(k, @[k])]]
    IN Outcome(setState(mutated, [tasks |-> allTasks], NoAction),
               Ret("undefined"), FALSE)

\* ---------------------------------------------------------------------------
\* Persistence: saveToStorage and the timer callback of debouncedSave
\* ---------------------------------------------------------------------------
\* No Storage.save call
NoSave == [tasks |-> <<>>, version |-> "none"]

\* The object saveToStorage hands to Storage.save (the constant version field
\* left out); Storage.save serialises it before it returns
payload(st) ==
    [tasks |-> st.tasks, currentFilter |-> st.currentFilter,
     currentSort |-> st.currentSort, activeTagFilters |-> st.activeTagFilters,
     searchQuery |-> st.searchQuery, theme |-> st.theme]

\* saveToStorage without the isLoading test
saveToStorage_whileLoading(m, accepted) ==
    Outcome([m EXCEPT !.calls.save = payload(m.state), !.calls.rejected = ~accepted],
            Ret("undefined"), FALSE)

\* saveToStorage without the catch
saveToStorage_rethrows(m, accepted) ==
    IF m.state.isLoading THEN Outcome(m, Ret("undefined"), FALSE)
    ELSE Outcome([m EXCEPT !.calls.save = payload(m.state),
                           !.calls.rejected = ~accepted],
                 IF accepted THEN Ret("undefined") ELSE Ret("throws"), FALSE)

\* saveToStorage(); accepted says whether Storage.save resolves.  A rejection
\* is caught, logged and shown as a toast.
saveToStorage(m, accepted) ==
    IF m.state.isLoading THEN Outcome(m, Ret("undefined"), FALSE)
    ELSE Outcome([m EXCEPT !.calls.save = payload(m.state),
                           !.calls.rejected = ~accepted],
                 Ret("undefined"), FALSE)

\* The pending timers of debouncedSave
pendingTimers(tm) ==
    (IF tm.armed THEN {"timeout"} ELSE {}) \cup (IF tm.stray > 0 THEN {"stray"} ELSE {})

\* later(): the callback of the timer fired; clearTimeout(timeout), then
\* func() = saveToStorage()
later(m, fired, accepted) ==
    LET expired == IF fired = "timeout" THEN [m EXCEPT !.timeout.armed = FALSE]
                   ELSE [m EXCEPT !.timeout.stray = @ - 1]
        cleared == [expired EXCEPT !.timeout = clearTimeout(@)]
    IN saveToStorage(cleared, accepted)

\* ---------------------------------------------------------------------------
\* Storage.importData and UI.handleImport
\* ---------------------------------------------------------------------------
\* JSON values of the tasks key of an imported file: an array, a string, or
\* no such key
array(items) == [kind |-> "array", items |-> items]
aString == [kind |-> "string", items |-> <<>>]
undefined == [kind |-> "undefined", items |-> <<>>]

\* The forEach of importData that pushes every imported task
mergeTasks_alwaysPushes(mergedTasks, imported) == mergedTasks \o imported

\* The forEach of importData over the imported tasks, on mergedTasks
RECURSIVE mergeTasks(_, _)
mergeTasks(mergedTasks, imported) ==
    IF imported = <<>> THEN mergedTasks
    ELSE LET importedTask == Head(imported)
             existingIndex == findIndex(mergedTasks, importedTask.id)
             merged ==
                 IF existingIndex > 0
                 THEN (IF importedTask.updatedAt > mergedTasks[existingIndex].updatedAt
                       THEN [mergedTasks EXCEPT ![existingIndex] = importedTask]
                       ELSE mergedTasks)
                 ELSE Append(mergedTasks, importedTask)
         IN mergeTasks(merged, Tail(imported))

\* What Storage.importData settles with
Rejected(stored) == [kind |-> "rejected", data |-> defaultData, stored |-> stored]
Resolved(data) == [kind |-> "resolved", data |-> data, stored |-> data]

\* importData that takes a missing or malformed tasks key for an empty array
importData_withoutValidation(existingData, importedData, loads, saves) ==
    IF ~loads THEN [kind |-> "rejected", data |-> defaultData, stored |-> existingData]
    ELSE LET mergedData ==
                 [existingData EXCEPT
                     !.tasks = mergeTasks(existingData.tasks, importedData.tasks.items)]
         IN IF saves
            THEN [kind |-> "resolved", data |-> mergedData, stored |-> mergedData]
            ELSE [kind |-> "rejected", data |-> defaultData, stored |-> existingData]

\* Storage.importData(importedData), with existingData what Storage.load
\* resolves with; loads and saves say whether Storage.load and Storage.save
\* resolve.  stored is the persisted data afterwards.
importData(existingData, importedData, loads, saves) ==
    IF importedData.tasks.kind = "undefined" \/ importedData.tasks.kind # "array"
    THEN Rejected(existingData)
    ELSE IF ~loads THEN Rejected(existingData)
    ELSE LET mergedData ==
                 [existingData EXCEPT
                     !.tasks = mergeTasks(existingData.tasks, importedData.tasks.items)]
         IN IF saves THEN Resolved(mergedData) ELSE Rejected(existingData)

\* UI.handleImport(event) for a file that parses to importedData: the
\* StateManager afterwards (m), the type of the toast shown (ret) and the
\* persisted data afterwards (stored)
handleImport(m, existingData, importedData, loads, saves) ==
    LET settled == importData(existingData, importedData, loads, saves)
        mergedData == settled.data
    IN IF settled.kind = "rejected"
       THEN [m |-> m, ret |-> Ret("error"), rec |-> FALSE, stored |-> settled.stored]
       ELSE [m |-> setState(m, [tasks |-> mergedData.tasks,
                                currentFilter |->
                                    orElse(mergedData, "currentFilter", "", "all"),
                                currentSort |->
                                    orElse(mergedData, "currentSort", "", "created"),
                                activeTagFilters |->
                                    arrayOrElse(mergedData, "activeTagFilters", <<>>),
                                searchQuery |->
                                    orElse(mergedData, "searchQuery", <<>>, <<>>)],
                             NoAction),
             ret |-> Ret("success"), rec |-> FALSE, stored |-> settled.stored]

\* ---------------------------------------------------------------------------
\* Service worker (src/sw.js): cache names, cleanup and caching strategies
\* ---------------------------------------------------------------------------
\* Cache names and request URLs are sequences of the pieces they are written
\* from; a template literal concatenates them
CACHE_NAME == <<"todo-app-", "v1.0.0">>
STATIC_CACHE_NAME == CACHE_NAME \o <<"-static">>
DYNAMIC_CACHE_NAME == CACHE_NAME \o <<"-dynamic">>

STATIC_FILES ==
    << <<"/">>, <<"/", "index.html">>, <<"/", "styles.css">>, <<"/", "app.js">>,
       <<"/", "manifest", ".json">> >>

MAX_DYNAMIC_CACHE_SIZE == 50

\* String.prototype.startsWith and endsWith
startsWith(str, prefix) ==
    Len(str) >= Len(prefix) /\ SubSeq(str, 1, Len(prefix)) = prefix

endsWith(str, suffix) ==
    Len(str) >= Len(suffix)
        /\ SubSeq(str, Len(str) - Len(suffix) + 1, Len(str)) = suffix

\* A CacheStorage without caches
NoCaches == [name \in {} |-> <<>>]

\* caches.open(cacheName): the cache is created when it does not exist
open(cs, cacheName) ==
    IF cacheName \in DOMAIN cs THEN cs ELSE cs @@ (cacheName :> <<>>)

\* caches.delete for each of the names
deleteAll(cs, names) == [name \in DOMAIN cs \ names |-> cs[name]]

\* cache.put(request, response) on the keys of a cache
put(keys, request) ==
    IF \E i \in 1..Len(keys) : keys[i] = request THEN keys ELSE Append(keys, request)

\* cache.addAll(requests) on the keys of a cache
RECURSIVE addAll(_, _)
addAll(keys, requests) ==
    IF requests = <<>> THEN keys
    ELSE addAll(put(keys, Head(requests)), Tail(requests))

\* caches.match(request): some cache of the origin holds the request
match(cs, request) ==
    \E name \in DOMAIN cs : \E i \in 1..Len(cs[name]) : cs[name][i] = request

\* limitCacheSize(cacheName, maxSize): the oldest keys are deleted
limitCacheSize(cs, cacheName, maxSize) ==
    LET opened == open(cs, cacheName)
        keys == opened[cacheName]
    IN IF Len(keys) > maxSize
       THEN [opened EXCEPT ![cacheName] = SubSeq(keys, Len(keys) - maxSize + 1, Len(keys))]
       ELSE opened

\* cleanupOldCaches(currentCacheName)
cleanupOldCaches(cs, currentCacheName) ==
    deleteAll(cs, {cacheName \in DOMAIN cs :
                      /\ startsWith(cacheName, <<"todo-app-">>)
                      /\ cacheName # currentCacheName})

\* The install handler; cached says whether cache.addAll(STATIC_FILES) resolved
install(cs, cached) ==
    LET opened == open(cs, STATIC_CACHE_NAME)
    IN IF cached
       THEN [opened EXCEPT ![STATIC_CACHE_NAME] = addAll(@, STATIC_FILES)]
       ELSE opened

\* The activate handler
activate(cs) == cleanupOldCaches(cs, CACHE_NAME)

\* cacheFirstStrategy(request); ok says whether fetch resolved with an ok response
cacheFirstStrategy(cs, request, ok) ==
    IF match(cs, request) THEN cs
    ELSE IF ok
         THEN [open(cs, STATIC_CACHE_NAME) EXCEPT ![STATIC_CACHE_NAME] = put(@, request)]
         ELSE cs

\* networkFirstStrategy(request)
networkFirstStrategy(cs, request, ok) ==
    IF ok
    THEN limitCacheSize([open(cs, DYNAMIC_CACHE_NAME) EXCEPT
                            ![DYNAMIC_CACHE_NAME] = put(@, request)],
                        DYNAMIC_CACHE_NAME, MAX_DYNAMIC_CACHE_SIZE)
    ELSE cs

\* staleWhileRevalidateStrategy(request)
staleWhileRevalidateStrategy(cs, request, ok) ==
    LET opened == open(cs, DYNAMIC_CACHE_NAME)
    IN IF ok
       THEN limitCacheSize([opened EXCEPT ![DYNAMIC_CACHE_NAME] = put(@, request)],
                           DYNAMIC_CACHE_NAME, MAX_DYNAMIC_CACHE_SIZE)
       ELSE opened

\* The fetch handler, for a GET request over http
fetch(cs, request, ok) ==
    IF \E i \in 1..Len(STATIC_FILES) :
          endsWith(request, STATIC_FILES[i]) \/ includes(request, STATIC_FILES[i])
    THEN cacheFirstStrategy(cs, request, ok)
    ELSE IF includes(request, <<"api/">>) \/ includes(request, <<".json">>)
    THEN networkFirstStrategy(cs, request, ok)
    ELSE staleWhileRevalidateStrategy(cs, request, ok)

\* cacheUrls(urls), called for a CACHE_URLS message
cacheUrls(cs, urls, ok) ==
    LET opened == open(cs, DYNAMIC_CACHE_NAME)
    IN IF ok THEN [opened EXCEPT ![DYNAMIC_CACHE_NAME] = addAll(@, urls)] ELSE opened

\* performCleanup(), called for a periodicsync event tagged cleanup
performCleanup(cs) ==
    cleanupOldCaches(
        limitCacheSize(limitCacheSize(cs, STATIC_CACHE_NAME, 50),
                       DYNAMIC_CACHE_NAME, MAX_DYNAMIC_CACHE_SIZE),
        CACHE_NAME)

\* ---------------------------------------------------------------------------
\* The state machine
\* ---------------------------------------------------------------------------
NoCalls == [emit |-> 0, debouncedSave |-> 0, save |-> NoSave, rejected |-> FALSE]

M == [state |-> state, history |-> history, historyIndex |-> historyIndex,
      timeout |-> timeout, calls |-> NoCalls]

\* Values new Date() can return in the next handler
Times == {t \in now..(now + 1) : t <= MaxTime}

\* Ids a caller can name
idsOf(tasks) == {tasks[i].id : i \in 1..Len(tasks)}
TaskIds == idsOf(state.tasks)

\* Id lists handed to the bulk operations: one task, all tasks
IdLists ==
    IF state.tasks # <<>> THEN {{state.tasks[1].id}, idsOf(state.tasks)} ELSE {{}}

\* Priorities handed to bulkSetPriority
BulkPriorities == {"high"}

\* Pattern formed by the last operations.  A: an operation that pushed a
\* history entry; U: undo() that returned true; R: redo().
\*   "A"    the last operation was an A
\*   "AU"   an A, then U            "Au"  an A, then a refused undo()
\*   "AUR"  an A, then U, then R
\*   "U"    the last operation was a U, not preceded by an A
\*   "UA"   a U, then an A
\*   "UAR"  a U, then an A, then R
\*   "-"    anything else
chainAfter(op, r) ==
    CASE r.rec -> IF chain \in {"U", "AU"} THEN "UA" ELSE "A"
      [] op = "undo" /\ r.ret.kind = "true" ->
            IF chain \in {"A", "UA"} THEN "AU" ELSE "U"
      [] op = "undo" /\ r.ret.kind # "true" ->
            IF chain \in {"A", "UA"} THEN "Au" ELSE "-"
      [] op = "redo" ->
            IF chain = "AU" THEN "AUR" ELSE IF chain = "UA" THEN "UAR" ELSE "-"
      [] OTHER -> "-"

\* The StateManager after outcome r of operation op, and the bookkeeping
Settle(op, r) ==
    /\ state' = r.m.state
    /\ history' = r.m.history
    /\ historyIndex' = r.m.historyIndex
    /\ lastOp' = op
    /\ lastRet' = r.ret
    /\ lastCalls' = r.m.calls
    /\ timeout' = r.m.timeout
    /\ saveFailed' = (saveFailed \/ r.m.calls.rejected)
    /\ chain' = chainAfter(op, r)
    /\ snapS' = IF r.rec THEN state ELSE snapS
    /\ snapS1' = IF r.rec THEN r.m.state.tasks ELSE snapS1
    /\ snapFirst' = IF r.rec /\ acts = 0 THEN r.m.state ELSE snapFirst
    /\ acts' = IF r.rec THEN acts + 1 ELSE acts
    /\ undos' = IF op = "undo"
                THEN (IF r.ret.kind = "true" THEN undos + 1 ELSE undos)
                ELSE 0
    /\ UNCHANGED <<caches, worker>>

\* Operation op has run to its end with outcome r
Apply(op, r) ==
    /\ Settle(op, r)
    /\ stack' = stack

\* The entries after a step that may have pushed a history entry: the entries
\* after the position were cut off, and the oldest one was dropped when the
\* history was full
afterPush(sh) ==
    IF acts' = acts THEN sh
    ELSE LET kept == {x \in sh : x.entry <= historyIndex + 1}
         IN IF historyIndex' = historyIndex
            THEN {[x EXCEPT !.entry = @ - 1] : x \in {y \in kept : y.entry > 1}}
            ELSE kept

\* The StateManager as constructed, with data persisted by an earlier session
\* and the caches an earlier visit of the origin left
InitOrigin(persisted, cacheStorages) ==
    /\ state = initialState
    /\ history = <<>>
    /\ historyIndex = -1
    /\ storage \in persisted
    /\ now = 1
    /\ nextId = 1
    /\ lastOp = "init"
    /\ lastRet = Ret("undefined")
    /\ lastCalls = NoCalls
    /\ chain = "-"
    /\ snapS = initialState
    /\ snapS1 = <<>>
    /\ snapFirst = initialState
    /\ acts = 0
    /\ undos = 0
    /\ loadPending = TRUE
    /\ shared = {}
    /\ timeout = NoTimer
    /\ saveFailed = FALSE
    /\ stack = 0
    /\ caches \in cacheStorages
    /\ worker = "parsed"

\* The first visit of the origin: no cache exists
InitWith(persisted) == InitOrigin(persisted, {NoCaches})

Init == InitWith(StoredData)

\* loadData(): Storage.load resolves
LoadData ==
    /\ loadPending
    /\ loadPending' = FALSE
    /\ Apply("loadData",
             Outcome(setState(M, [tasks |-> storage.tasks,
                                  currentFilter |-> storage.currentFilter,
                                  currentSort |-> storage.currentSort,
                                  activeTagFilters |-> storage.activeTagFilters,
                                  searchQuery |-> storage.searchQuery,
                                  theme |-> storage.theme,
                                  isLoading |-> FALSE], NoAction),
                     Ret("undefined"), FALSE))
    /\ shared' = {}
    /\ UNCHANGED <<storage, now, nextId>>

\* loadData(): Storage.load rejects
LoadDataFails ==
    /\ loadPending
    /\ loadPending' = FALSE
    /\ Apply("loadDataFails",
             Outcome(setState(M, [isLoading |-> FALSE], NoAction),
                     Ret("undefined"), FALSE))
    /\ UNCHANGED <<storage, now, nextId, shared>>

AddTask(taskData) ==
    /\ nextId <= MaxIds
    /\ \E t \in Times :
        /\ now' = t
        /\ Apply("addTask", addTask(M, taskData, TRUE, t, nextId))
    /\ nextId' = nextId + 1
    /\ shared' = afterPush(shared) \cup {sharedTask(nextId, Len(history'))}
    /\ UNCHANGED <<storage, loadPending>>

UpdateTask(taskId, updates) ==
    /\ \E t \in Times :
        /\ now' = t
        /\ Apply("updateTask", updateTask(M, taskId, updates, TRUE, t))
    /\ shared' = afterPush(unshare(shared, {taskId}))
    /\ UNCHANGED <<storage, nextId, loadPending>>

DeleteTask(taskId) ==
    /\ Apply("deleteTask", deleteTask(M, taskId, TRUE))
    /\ shared' = afterPush(unshare(shared, {taskId}))
    /\ UNCHANGED <<storage, now, nextId, loadPending>>

ToggleTaskComplete(taskId) ==
    /\ \E t \in Times :
        /\ now' = t
        /\ Apply("toggleTaskComplete", toggleTaskComplete(M, taskId, TRUE, t))
    /\ shared' = afterPush(unshare(shared, {taskId}))
    /\ UNCHANGED <<storage, nextId, loadPending>>

ClearCompleted ==
    /\ Apply("clearCompleted", clearCompleted(M))
    /\ shared' = afterPush(unshare(shared, idsOf(SelectSeq(state.tasks, isCompleted))))
    /\ UNCHANGED <<storage, now, nextId, loadPending>>

BulkComplete(taskIds) ==
    /\ \E t \in Times :
        /\ now' = t
        /\ Apply("bulkComplete", bulkComplete(M, taskIds, t))
    /\ shared' = afterPush(unshare(shared, taskIds))
    /\ UNCHANGED <<storage, nextId, loadPending>>

BulkDelete(taskIds) ==
    /\ Apply("bulkDelete", bulkDelete(M, taskIds))
    /\ shared' = afterPush(unshare(shared, taskIds))
    /\ UNCHANGED <<storage, now, nextId, loadPending>>

BulkSetPriority(taskIds, priority) ==
    /\ \E t \in Times :
        /\ now' = t
        /\ Apply("bulkSetPriority", bulkSetPriority(M, taskIds, priority, t))
    /\ shared' = afterPush(unshare(shared, taskIds))
    /\ UNCHANGED <<storage, nextId, loadPending>>

Undo ==
    /\ Apply("undo", undo(M))
    /\ shared' = IF historyIndex >= 0
                 THEN { sharedPrev(id, historyIndex + 1) :
                          id \in idsOf(history[historyIndex + 1].prevState.tasks) }
                 ELSE shared
    /\ UNCHANGED <<storage, now, nextId, loadPending>>

\* redo(); a replayed ADD_TASK draws a fresh id
Redo ==
    LET replaysAdd == /\ historyIndex < Len(history) - 1
                      /\ history[historyIndex + 2].action.type = "ADD_TASK"
    IN /\ replaysAdd => nextId <= MaxIds
       /\ \E t \in Times :
            /\ now' = t
            /\ Apply("redo", redo(M, t, nextId))
       /\ nextId' = IF replaysAdd THEN nextId + 1 ELSE nextId
       /\ shared' = IF historyIndex < Len(history) - 1
                       /\ history[historyIndex + 2].action.type
                             \in {"UPDATE_TASK", "DELETE_TASK", "TOGGLE_COMPLETE"}
                    THEN unshare(shared, {history[historyIndex + 2].action.taskId})
                    ELSE shared
       /\ UNCHANGED <<storage, loadPending>>

\* The drop handler of a rendered task: reorderTasks(draggedTask, task, e)
\* when another rendered task is dropped on it
ReorderTasks(draggedId, targetId, insertAfter) ==
    /\ draggedId # targetId
    /\ \E t \in Times :
        /\ now' = t
        /\ Apply("reorderTasks",
                 reorderTasks(M, shared, draggedId, targetId, insertAfter, t))
    /\ UNCHANGED <<storage, nextId, loadPending, shared>>

\* A handler that only calls setState(newState) without an action
SetPreference(op, newState) ==
    /\ Apply(op, Outcome(setState(M, newState, NoAction), Ret("undefined"), FALSE))
    /\ UNCHANGED <<storage, now, nextId, loadPending, shared>>

\* The click handler of a rendered task, without the shift key: the new
\* selection is built from new Set(state.selectedTasks), which throws when
\* selectedTasks is not iterable; ctrlKey toggles the task in the selection,
\* a plain click selects it alone
SelectTask(taskId, ctrlKey) ==
    IF state.selectedTasks.isSet
    THEN LET old == state.selectedTasks.ids
             newSelected == IF ctrlKey
                            THEN (IF taskId \in old THEN old \ {taskId}
                                  ELSE old \cup {taskId})
                            ELSE {taskId}
         IN SetPreference("selectTask", [selectedTasks |-> newSet(newSelected)])
    ELSE /\ Apply("selectTask", Outcome(M, Ret("throws"), FALSE))
         /\ UNCHANGED <<storage, now, nextId, loadPending, shared>>

\* search input handler
SetSearchQuery(q) == SetPreference("setSearchQuery", [searchQuery |-> q])

\* sort select handler
SetSort(sortType) == SetPreference("setSort", [currentSort |-> sortType])

\* setActiveFilter(filter)
SetActiveFilter(f) == SetPreference("setActiveFilter", [currentFilter |-> f])

\* addTagFilter(tag)
AddTagFilter(tag) ==
    /\ \A i \in 1..Len(state.activeTagFilters) : state.activeTagFilters[i] # tag
    /\ SetPreference("addTagFilter",
                     [activeTagFilters |-> Append(state.activeTagFilters, tag)])

\* removeTagFilter(tag)
RemoveTagFilter(tag) ==
    LET other(x) == x # tag
    IN SetPreference("removeTagFilter",
                     [activeTagFilters |-> SelectSeq(state.activeTagFilters, other)])

\* A timer of debouncedSave fires, autosaveDelay after the setState call that
\* started it; Storage.save resolves or rejects
SaveTimer ==
    \E fired \in pendingTimers(timeout), accepted \in BOOLEAN :
        LET r == later(M, fired, accepted)
        IN /\ Apply("saveTimer", r)
           /\ storage' = IF r.m.calls.save # NoSave /\ ~r.m.calls.rejected
                          THEN r.m.calls.save
                          ELSE storage
           /\ UNCHANGED <<now, nextId, loadPending, shared>>

\* The change handler of the import file input, for a file that parses to
\* importedData.  The tasks of the merged data are objects of their own.
HandleImport(importedData) ==
    \E loads, saves \in BOOLEAN :
        LET r == handleImport(M, storage, importedData, loads, saves)
        IN /\ Apply("handleImport", r)
           /\ storage' = r.stored
           /\ shared' = IF r.ret.kind = "success" THEN {} ELSE shared
           /\ UNCHANGED <<now, nextId, loadPending>>

\* setState(newState) up to its call of emit(): the merge and the projection
\* are done, debouncedSave() is still to come
untilEmit(m, newState) ==
    [setState(m, newState, NoAction) EXCEPT !.timeout = m.timeout,
                                            !.calls.debouncedSave = 0]

\* A handler calls setState(newState) with UI.render subscribed: setState is
\* in emit(), about to call the observer
CallSetState(op, newState) ==
    /\ stack = 0
    /\ Settle(op, Outcome(untilEmit(M, newState), Ret("pending"), FALSE))
    /\ stack' = 1
    /\ UNCHANGED <<storage, now, nextId, loadPending, shared>>

\* loadData() with UI.render subscribed: Storage.load has resolved and
\* setState is in emit()
LoadDataRendered ==
    /\ loadPending
    /\ loadPending' = FALSE
    /\ stack = 0
    /\ Settle("loadData",
               Outcome(untilEmit(M, [tasks |-> storage.tasks,
                                     currentFilter |-> storage.currentFilter,
                                     currentSort |-> storage.currentSort,
                                     activeTagFilters |-> storage.activeTagFilters,
                                     searchQuery |-> storage.searchQuery,
                                     theme |-> storage.theme,
                                     isLoading |-> FALSE]),
                       Ret("pending"), FALSE))
    /\ stack' = 1
    /\ UNCHANGED <<storage, now, nextId, shared>>

\* emit() calls the observer, UI.render(this.state).  While isLoading is true
\* render returns at once, and the setState call that emitted calls
\* debouncedSave() and returns.  Otherwise render updates the page and ends
\* with setActiveFilter(appState.currentFilter), which calls
\* state.setState({ currentFilter: filter }): one more setState call in emit()
Render ==
    /\ stack \in 1..(MaxDepth - 1)
    /\ IF state.isLoading
       THEN /\ Settle("render",
                      Outcome([M EXCEPT !.timeout = debounce(@),
                                        !.calls.debouncedSave = 1],
                              Ret("undefined"), FALSE))
            /\ stack' = stack - 1
       ELSE /\ Settle("render",
                      Outcome(untilEmit(M, [currentFilter |-> state.currentFilter]),
                              Ret("pending"), FALSE))
            /\ stack' = stack + 1
    /\ UNCHANGED <<storage, now, nextId, loadPending, shared>>

\* The call stack is exhausted: the RangeError unwinds every setState call
\* in progress
StackOverflow ==
    /\ stack = MaxDepth
    /\ Settle("render", Outcome(M, Ret("throws"), FALSE))
    /\ stack' = 0
    /\ UNCHANGED <<storage, now, nextId, loadPending, shared>>

\* ---------------------------------------------------------------------------
\* Specification Spec: a session after the initial load has settled -- the
\* recorded actions, undo and redo
\* ---------------------------------------------------------------------------
RecordedAction ==
    \/ \E taskData \in Drafts : AddTask(taskData)
    \/ \E taskId \in TaskIds, updates \in Updates : UpdateTask(taskId, updates)
    \/ \E taskId \in TaskIds : DeleteTask(taskId)
    \/ \E taskId \in TaskIds : ToggleTaskComplete(taskId)
    \/ ClearCompleted
    \/ \E taskIds \in IdLists : BulkComplete(taskIds)
    \/ \E taskIds \in IdLists : BulkDelete(taskIds)
    \/ \E taskIds \in IdLists, priority \in BulkPriorities :
          BulkSetPriority(taskIds, priority)

Next ==
    \/ LoadData
    \/ LoadDataFails
    \/ ~loadPending /\ acts < MaxActs /\ RecordedAction
    \/ ~loadPending /\ Undo
    \/ ~loadPending /\ Redo

Spec == Init /\ [][Next]_vars

\* ---------------------------------------------------------------------------
\* Specification SpecView: changes of filter and sort mode interleaved with
\* task mutations, undo and redo
\* ---------------------------------------------------------------------------
ViewSortTypes == {"created", "title"}

NextView ==
    \/ LoadData
    \/ ~loadPending /\ \E sortType \in ViewSortTypes : SetSort(sortType)
    \/ ~loadPending /\ \E f \in Filters : SetActiveFilter(f)
    \/ ~loadPending /\ acts < MaxViewActs
          /\ \E taskId \in TaskIds : ToggleTaskComplete(taskId)
    \/ ~loadPending /\ Undo
    \/ ~loadPending /\ Redo

SpecView == Init /\ [][NextView]_vars

\* ---------------------------------------------------------------------------
\* Specification SpecProj: the projection over persisted collections -- the
\* load, then every change of filter, search query, tag filters and sort mode
\* ---------------------------------------------------------------------------
projTask(id, title, notes, completed, createdAt, priority, tags) ==
    [id |-> id, title |-> title, notes |-> notes, completed |-> completed,
     createdAt |-> createdAt, updatedAt |-> createdAt, dueAt |-> Null,
     priority |-> priority, tags |-> tags, parentId |-> Null, order |-> 0]

ProjPool ==
    { projTask(21, <<"a">>, <<>>, FALSE, 0, "high", << <<"A">> >>),
      projTask(22, <<"a", "B">>, <<"b", " ", "a">>, TRUE, 1, "medium",
               << <<"a">>, <<"b">> >>),
      projTask(23, <<"b">>, <<>>, FALSE, 1, "high", << <<"B">>, <<"A">> >>),
      projTask(24, <<"A", " ", "b">>, <<>>, TRUE, 0, "", <<>>),
      projTask(25, <<"b">>, <<>>, FALSE, 0, "low", << <<"b">> >>) }

\* Collections of at most MaxLen distinct tasks of the pool, in every order
ProjCollections ==
    UNION { { c \in [1..n -> ProjPool] :
                \A i, j \in 1..n : i # j => c[i] # c[j] } : n \in 0..MaxLen }

ProjData == { [defaultData EXCEPT !.tasks = c] : c \in ProjCollections }

ProjQueries == {<<>>, <<" ">>, <<"a">>, <<"a", " ">>, <<"B">>}

InitProj == InitWith(ProjData)

NextProj ==
    \/ LoadData
    \/ ~loadPending /\ \E q \in ProjQueries : SetSearchQuery(q)
    \/ ~loadPending /\ \E sortType \in SortTypes : SetSort(sortType)
    \/ ~loadPending /\ \E f \in Filters : SetActiveFilter(f)
    \/ ~loadPending /\ \E tag \in TagNames : AddTagFilter(tag)
    \/ ~loadPending /\ \E tag \in TagNames : RemoveTagFilter(tag)

SpecProj == InitProj /\ [][NextProj]_vars

\* ---------------------------------------------------------------------------
\* Specification SpecBound: recorded actions in a row on one persisted task,
\* then undo() until it is refused
\* ---------------------------------------------------------------------------
BoundData ==
    { [defaultData EXCEPT !.tasks = << storedTask(11, <<"b">>, FALSE, "low", 0) >>] }

InitBound == InitWith(BoundData)

\* One more action than the history holds
RunLength == historySize + 1

NextBound ==
    \/ LoadData
    \/ ~loadPending /\ acts < RunLength /\ chain \in {"-", "A"}
          /\ \E taskId \in TaskIds : ToggleTaskComplete(taskId)
    \/ ~loadPending /\ acts < RunLength /\ chain \in {"-", "A"}
          /\ \E taskIds \in IdLists, priority \in BulkPriorities :
                BulkSetPriority(taskIds, priority)
    \/ ~loadPending /\ acts = RunLength /\ Undo

SpecBound == InitBound /\ [][NextBound]_vars

\* ---------------------------------------------------------------------------
\* Specification SpecToggle: tasks are added and toggled, the status filter is
\* switched, the last actions are undone
\* ---------------------------------------------------------------------------
NextToggle ==
    \/ LoadData
    \/ ~loadPending /\ acts < MaxActs /\ \E taskData \in Drafts : AddTask(taskData)
    \/ ~loadPending /\ acts < MaxActs
          /\ \E taskId \in TaskIds : ToggleTaskComplete(taskId)
    \/ ~loadPending /\ \E f \in Filters : SetActiveFilter(f)
    \/ ~loadPending /\ Undo

SpecToggle == Init /\ [][NextToggle]_vars

\* ---------------------------------------------------------------------------
\* Specification SpecReorder: tasks are added and dragged onto one another,
\* and the additions are undone
\* ---------------------------------------------------------------------------
\* Ids of the tasks rendered (the tasks of filteredTasks)
RenderedIds == idsOf(state.filteredTasks)

\* Two persisted tasks, with the order values of a collection that was
\* never touched and of one from which a task in between was deleted
ReorderData ==
    { [defaultData EXCEPT !.tasks =
          << storedTask(11, <<"b">>, FALSE, "low", 0),
             storedTask(12, <<"a">>, TRUE, "", order) >>] : order \in {1, 2} }

InitReorder == InitWith(ReorderData)

NextReorder ==
    \/ LoadData
    \/ ~loadPending /\ acts < MaxViewActs
          /\ \E taskData \in Drafts : AddTask(taskData)
    \/ ~loadPending
          /\ \E draggedId, targetId \in RenderedIds, insertAfter \in BOOLEAN :
                ReorderTasks(draggedId, targetId, insertAfter)
    \/ ~loadPending /\ Undo

SpecReorder == InitReorder /\ [][NextReorder]_vars

\* ---------------------------------------------------------------------------
\* Specification SpecOps: every task-mutating operation of a session -- the
\* recorded actions and the reordering by drag and drop -- with undo and redo
\* ---------------------------------------------------------------------------
NextOps ==
    \/ LoadData
    \/ ~loadPending /\ acts < MaxViewActs /\ RecordedAction
    \/ ~loadPending
          /\ \E draggedId, targetId \in RenderedIds, insertAfter \in BOOLEAN :
                ReorderTasks(draggedId, targetId, insertAfter)
    \/ ~loadPending /\ Undo
    \/ ~loadPending /\ Redo

SpecOps == Init /\ [][NextOps]_vars

\* ---------------------------------------------------------------------------
\* Specification SpecSelect: tasks are selected by clicks and deleted, and
\* the deletions are undone and redone
\* ---------------------------------------------------------------------------
NextSelect ==
    \/ LoadData
    \/ ~loadPending
          /\ \E taskId \in RenderedIds, ctrlKey \in BOOLEAN : SelectTask(taskId, ctrlKey)
    \/ ~loadPending /\ acts < MaxActs /\ \E taskId \in TaskIds : DeleteTask(taskId)
    \/ ~loadPending /\ Undo
    \/ ~loadPending /\ Redo

SpecSelect == InitReorder /\ [][NextSelect]_vars

\* ---------------------------------------------------------------------------
\* Specification SpecMissing: operations are called with ids of tasks that
\* exist and of tasks that do not exist (any more)
\* ---------------------------------------------------------------------------
\* Ids a caller can hold: of the persisted tasks and of the tasks added
HeldIds == {11, 12} \cup 1..MaxIds

NextMissing ==
    \/ LoadData
    \/ ~loadPending /\ acts < MaxActs /\ \E taskData \in Drafts : AddTask(taskData)
    \/ ~loadPending /\ acts < MaxActs /\ \E taskId \in TaskIds : DeleteTask(taskId)
    \/ ~loadPending
          /\ \E taskId \in HeldIds, updates \in Updates :
                /\ acts < MaxActs \/ taskId \notin TaskIds
                /\ UpdateTask(taskId, updates)
    \/ ~loadPending
          /\ \E taskId \in HeldIds :
                /\ acts < MaxActs \/ taskId \notin TaskIds
                /\ ToggleTaskComplete(taskId)
    \/ ~loadPending /\ Undo
    \/ ~loadPending /\ Redo

SpecMissing == Init /\ [][NextMissing]_vars

\* ---------------------------------------------------------------------------
\* Specification SpecSave: tasks are added, undone and redone while the
\* initial load is pending and after it, and the save timer fires in between
\* ---------------------------------------------------------------------------
NextSave ==
    \/ LoadData
    \/ acts < MaxActs /\ \E taskData \in Drafts : AddTask(taskData)
    \/ Undo
    \/ Redo
    \/ SaveTimer

SpecSave == Init /\ [][NextSave]_vars

\* ---------------------------------------------------------------------------
\* Specification SpecSaveFair: SpecSave in a process that keeps running -- a
\* pending save timer fires in the end, and Storage.load settles
\* ---------------------------------------------------------------------------
SpecSaveFair == SpecSave /\ WF_vars(SaveTimer) /\ WF_vars(LoadData)

\* ---------------------------------------------------------------------------
\* Specification SpecImport: files are imported while tasks are added and
\* the additions undone, with the save timer firing in between
\* ---------------------------------------------------------------------------
\* A task of an imported file
importedTask(id, title, updatedAt) ==
    [storedTask(id, title, FALSE, "", 0) EXCEPT !.updatedAt = updatedAt]

\* Files whose tasks key is an array: a task as old as the persisted one with
\* its id and a new task; a newer task and two tasks with one new id; a task
\* with a generated id and a task older than the persisted one
ValidImports ==
    { [tasks |-> array(<< importedTask(11, <<"A">>, 0), importedTask(31, <<"a">>, 0) >>)],
      [tasks |-> array(<< importedTask(12, <<"B">>, 1), importedTask(31, <<"b">>, 1),
                          importedTask(31, <<"a", "b">>, 0) >>)],
      [tasks |-> array(<< importedTask(1, <<"a">>, 0), importedTask(11, <<"a">>, -1) >>)] }

\* Files without a tasks array
InvalidImports == { [tasks |-> undefined], [tasks |-> aString] }

Imports == ValidImports \cup InvalidImports

NextImport ==
    \/ LoadData
    \/ ~loadPending /\ acts < MaxViewActs /\ \E taskData \in Drafts : AddTask(taskData)
    \/ ~loadPending /\ Undo
    \/ ~loadPending /\ \E importedData \in Imports : HandleImport(importedData)
    \/ ~loadPending /\ SaveTimer

SpecImport == Init /\ [][NextImport]_vars

\* ---------------------------------------------------------------------------
\* Specification SpecIds: every operation that touches the collection -- the
\* recorded actions, undo, redo, reordering and the import of a file -- on one
\* persisted task
\* ---------------------------------------------------------------------------
\* A file with a newer version of the persisted task and two tasks with one
\* new id; it is imported until the import has succeeded
CollidingImports ==
    { [tasks |-> array(<< importedTask(11, <<"A">>, 1), importedTask(31, <<"a">>, 0),
                          importedTask(31, <<"b">>, 1) >>)] }

NextIds ==
    \/ LoadData
    \/ ~loadPending /\ acts < MaxViewActs /\ RecordedAction
    \/ ~loadPending
          /\ \E draggedId, targetId \in RenderedIds, insertAfter \in BOOLEAN :
                ReorderTasks(draggedId, targetId, insertAfter)
    \/ ~loadPending /\ Undo
    \/ ~loadPending /\ Redo
    \/ ~loadPending /\ 31 \notin idsOf(storage.tasks)
          /\ \E importedData \in CollidingImports : HandleImport(importedData)

SpecIds == InitBound /\ [][NextIds]_vars

\* ---------------------------------------------------------------------------
\* Specification SpecRender: the handlers that change sort mode, filter and
\* search query, and the initial load, with UI.render subscribed to the
\* StateManager as TodoApp.init subscribes it
\* ---------------------------------------------------------------------------
NextRender ==
    \/ LoadDataRendered
    \/ \E sortType \in ViewSortTypes : CallSetState("setSort", [currentSort |-> sortType])
    \/ \E f \in Filters : CallSetState("setActiveFilter", [currentFilter |-> f])
    \/ \E q \in ProjQueries : CallSetState("setSearchQuery", [searchQuery |-> q])
    \/ Render
    \/ StackOverflow

SpecRender == Init /\ [][NextRender]_vars

\* ---------------------------------------------------------------------------
\* Specification SpecHistory: recorded actions on one persisted task, with
\* undo() and redo() at any point in between, up to one action more than the
\* history holds
\* ---------------------------------------------------------------------------
NextHistory ==
    \/ LoadData
    \/ ~loadPending /\ acts < RunLength
          /\ \E taskId \in TaskIds : ToggleTaskComplete(taskId)
    \/ ~loadPending /\ Undo
    \/ ~loadPending /\ Redo

SpecHistory == InitBound /\ [][NextHistory]_vars

\* ---------------------------------------------------------------------------
\* Specification SpecReplay: a task is added to two persisted ones, the
\* collection is reordered by drag and drop, and the addition is undone and
\* redone at any point in between
\* ---------------------------------------------------------------------------
NextReplay ==
    \/ LoadData
    \/ ~loadPending /\ acts < MaxViewActs
          /\ \E taskData \in Drafts : AddTask(taskData)
    \/ ~loadPending
          /\ \E draggedId, targetId \in RenderedIds, insertAfter \in BOOLEAN :
                ReorderTasks(draggedId, targetId, insertAfter)
    \/ ~loadPending /\ Undo
    \/ ~loadPending /\ Redo

SpecReplay == InitReorder /\ [][NextReplay]_vars

\* ---------------------------------------------------------------------------
\* Specification SpecNoChange: operations that change no task -- deleteTask
\* with an id that is not in tasks, clearCompleted with no completed task, the
\* bulk operations with an empty id list -- between additions, undo and redo
\* ---------------------------------------------------------------------------
NextNoChange ==
    \/ LoadData
    \/ ~loadPending /\ acts < MaxActs /\ \E taskData \in Drafts : AddTask(taskData)
    \/ ~loadPending /\ acts < MaxActs
          /\ \E taskId \in HeldIds \ TaskIds : DeleteTask(taskId)
    \/ ~loadPending /\ acts < MaxActs
          /\ (\A i \in 1..Len(state.tasks) : ~state.tasks[i].completed)
          /\ ClearCompleted
    \/ ~loadPending /\ acts < MaxActs /\ BulkComplete({})
    \/ ~loadPending /\ acts < MaxActs /\ BulkDelete({})
    \/ ~loadPending /\ acts < MaxActs
          /\ \E priority \in BulkPriorities : BulkSetPriority({}, priority)
    \/ ~loadPending /\ Undo
    \/ ~loadPending /\ Redo

SpecNoChange == Init /\ [][NextNoChange]_vars

\* ---------------------------------------------------------------------------
\* Specification SpecFailedLoad: the initial load resolves or rejects, the
\* save timers fire, and tasks are added, undone and redone before and after
\* ---------------------------------------------------------------------------
NextFailedLoad ==
    \/ LoadData
    \/ LoadDataFails
    \/ acts < MaxActs /\ \E taskData \in Drafts : AddTask(taskData)
    \/ Undo
    \/ Redo
    \/ SaveTimer

SpecFailedLoad == Init /\ [][NextFailedLoad]_vars

\* ---------------------------------------------------------------------------
\* Specification SpecWorker: the life of the service worker -- install,
\* activate, then fetch events, CACHE_URLS messages and periodic cleanups --
\* on an origin where an earlier version and another script left caches
\* ---------------------------------------------------------------------------
\* The variables of the page, which the worker does not touch
page == <<state, history, historyIndex, storage, now, nextId, lastRet, lastCalls,
          chain, snapS, snapS1, snapFirst, acts, undos, loadPending, shared,
          timeout, saveFailed, stack>>

\* Caches found at installation: none, the static cache of version 0.9.0, and
\* that cache together with a cache of another script
EarlierCaches ==
    { NoCaches,
      (<<"todo-app-", "v0.9.0", "-static">> :> << <<"/">> >>),
      (<<"todo-app-", "v0.9.0", "-static">> :> << <<"/">> >>)
          @@ (<<"fonts">> :> << <<"/", "font.woff">> >>) }

\* URLs the page requests
Requests ==
    { <<"/">>, <<"/", "app.js">>, <<"/", "api/", "tasks">>, <<"/", "logo.png">> }

\* URL lists of CACHE_URLS messages
UrlLists == { << <<"/", "logo.png">> >> }

InitWorker == InitOrigin({defaultData}, EarlierCaches)

Install ==
    /\ worker = "parsed"
    /\ \E cached \in BOOLEAN : caches' = install(caches, cached)
    /\ worker' = "installed"
    /\ lastOp' = "install"
    /\ UNCHANGED page

Activate ==
    /\ worker = "installed"
    /\ caches' = activate(caches)
    /\ worker' = "activated"
    /\ lastOp' = "activate"
    /\ UNCHANGED page

Fetch(request) ==
    /\ worker = "activated"
    /\ \E ok \in BOOLEAN : caches' = fetch(caches, request, ok)
    /\ lastOp' = "fetch"
    /\ UNCHANGED <<page, worker>>

Message(urls) ==
    /\ worker = "activated"
    /\ \E ok \in BOOLEAN : caches' = cacheUrls(caches, urls, ok)
    /\ lastOp' = "message"
    /\ UNCHANGED <<page, worker>>

PeriodicSync ==
    /\ worker = "activated"
    /\ caches' = performCleanup(caches)
    /\ lastOp' = "periodicsync"
    /\ UNCHANGED <<page, worker>>

NextWorker ==
    \/ Install
    \/ Activate
    \/ \E request \in Requests : Fetch(request)
    \/ \E urls \in UrlLists : Message(urls)
    \/ PeriodicSync

SpecWorker == InitWorker /\ [][NextWorker]_vars

\* ---------------------------------------------------------------------------
\* Properties
\* ---------------------------------------------------------------------------
\* The fields of this.state a user observes, selectedTasks left out
ObservedKeys ==
    {"tasks", "filteredTasks", "currentFilter", "currentSort", "searchQuery",
     "activeTagFilters", "theme", "isLoading", "editingTask"}

observed(st) == [k \in ObservedKeys |-> st[k]]

inFiltered(task) ==
    \E j \in 1..Len(state.filteredTasks) : state.filteredTasks[j] = task

\* C1: an undo() called right after a recorded action returns true and
\* restores tasks, currentFilter, currentSort, searchQuery and
\* activeTagFilters to their values just before that action.
C1_UndoRestoresPriorSnapshot ==
    chain \in {"AU", "Au"} =>
        /\ lastRet.kind = "true"
        /\ state.tasks = snapS.tasks
        /\ state.currentFilter = snapS.currentFilter
        /\ state.currentSort = snapS.currentSort
        /\ state.searchQuery = snapS.searchQuery
        /\ state.activeTagFilters = snapS.activeTagFilters

\* A recorded action that changed tasks has been undone
C1_Witness ==
    /\ chain = "AU"
    /\ lastOp = "undo"
    /\ snapS1 # snapS.tasks
    /\ state.tasks = snapS.tasks
    /\ state.currentFilter = "active"

\* C2: after a recorded action, undo() and redo(), the task collection equals
\* the one the action produced, task by task.
C2_RedoRestoresTasks ==
    chain = "AUR" => state.tasks = snapS1

\* C3: after historySize + 1 recorded actions in a row exactly historySize
\* undo() calls succeed: undo() is refused only after historySize successes,
\* never succeeds more often, and the state then reached is the one that held
\* just after the first action.
C3_HistoryBound ==
    acts = RunLength =>
        /\ undos <= historySize
        /\ (lastOp = "undo" /\ lastRet.kind = "false" => undos = historySize)
        /\ (undos = historySize => observed(state) = observed(snapFirst))

\* The eleventh undo() after eleven actions has been refused
C3_Witness ==
    /\ acts = RunLength
    /\ undos = historySize
    /\ lastOp = "undo"
    /\ lastRet.kind = "false"
    /\ historyIndex = -1

\* C4: a recorded action leaves no entry after the history position, and a
\* redo() called after undo() and a new recorded action returns false and
\* changes neither the state nor the history.
C4_BranchInvalidation ==
    [][ /\ chain' \in {"A", "UA"} => historyIndex' = Len(history') - 1
        /\ (chain = "UA" /\ lastOp' = "redo") =>
              /\ lastRet'.kind = "false"
              /\ UNCHANGED <<state, history, historyIndex>> ]_vars

\* redo() has been refused after an undo() followed by a recorded action
C4_Witness ==
    /\ chain = "UAR"
    /\ lastOp = "redo"
    /\ lastRet.kind = "false"

\* C5: a redo() that returns true for an entry whose action changed tasks
\* shows that action's effect again: tasks differ from the prior snapshot.
C5_RedoReplaysEveryVariant ==
    (chain = "AUR" /\ lastRet.kind = "true" /\ snapS1 # snapS.tasks) =>
        state.tasks # snapS.tasks

\* C6: filteredTasks is the projection of the current tasks under the current
\* filter, search query, tag filters and sort mode.
C6_FilteredTasksIsProjection ==
    state.filteredTasks =
        project(state.tasks, state.currentFilter, state.searchQuery,
                state.activeTagFilters, state.currentSort)

\* C7: every task of filteredTasks is a task of tasks, is not completed under
\* filter 'active' and is completed under filter 'completed'.
C7_FilterCorrectness ==
    \A j \in 1..Len(state.filteredTasks) :
        LET task == state.filteredTasks[j]
        IN /\ \E i \in 1..Len(state.tasks) : state.tasks[i] = task
           /\ state.currentFilter = "active" => ~task.completed
           /\ state.currentFilter = "completed" => task.completed

\* A filter that hides some task shows another one after a task was changed
C7_Witness ==
    /\ state.currentFilter = "completed"
    /\ state.filteredTasks # <<>>
    /\ Len(state.filteredTasks) < Len(state.tasks)
    /\ acts > 0

hasTag(task, name) ==
    \E i \in 1..Len(task.tags) : toLowerCase(task.tags[i]) = toLowerCase(name)

\* C8: with two tag filters a and b, filter 'all' and no search, a task is in
\* filteredTasks iff it has a tag equal to a and a tag equal to b, case
\* ignored.
C8_TagAndSemantics ==
    ( /\ Len(state.activeTagFilters) = 2
      /\ state.currentFilter = "all"
      /\ state.searchQuery = <<>> ) =>
        \A i \in 1..Len(state.tasks) :
            inFiltered(state.tasks[i]) <=>
                /\ hasTag(state.tasks[i], state.activeTagFilters[1])
                /\ hasTag(state.tasks[i], state.activeTagFilters[2])

\* Two tag filters keep one task and drop another that has only one of them
C8_Witness ==
    /\ Len(state.activeTagFilters) = 2
    /\ state.currentFilter = "all"
    /\ state.searchQuery = <<>>
    /\ \E i, j \in 1..Len(state.tasks) :
          /\ inFiltered(state.tasks[i])
          /\ ~inFiltered(state.tasks[j])
          /\ hasTag(state.tasks[j], state.activeTagFilters[1])

\* C9: with filter 'all' and no tag filter, a task is in filteredTasks iff the
\* trimmed, lower-cased search query is a substring of its lower-cased title,
\* notes or one of its tags (an empty trimmed query keeps every task).
C9_SearchUsesTrimmedQuery ==
    ( state.currentFilter = "all" /\ state.activeTagFilters = <<>> ) =>
        \A i \in 1..Len(state.tasks) :
            LET task == state.tasks[i]
                query == toLowerCase(trim(state.searchQuery))
            IN inFiltered(task) <=>
                  \/ includes(toLowerCase(task.title), query)
                  \/ includes(toLowerCase(task.notes), query)
                  \/ \E k \in 1..Len(task.tags) :
                        includes(toLowerCase(task.tags[k]), query)

\* The order sortTasks gives the current tasks under sort mode 'priority'
byPriority == sortTasks(state.tasks, "priority")

rankOf(task) ==
    CASE task.priority = "high" -> 3
      [] task.priority = "medium" -> 2
      [] task.priority = "low" -> 1
      [] OTHER -> 0

\* C10: sorted by 'priority', the same tasks come out with every high task
\* before every medium task, every medium before every low, every low before
\* every task without priority, and newer createdAt first among equal
\* priorities.
C10_PrioritySort ==
    /\ Len(byPriority) = Len(state.tasks)
    /\ \A i \in 1..Len(state.tasks) :
          \E j \in 1..Len(byPriority) : byPriority[j] = state.tasks[i]
    /\ \A i, j \in 1..Len(byPriority) :
          i < j =>
            /\ rankOf(byPriority[i]) >= rankOf(byPriority[j])
            /\ rankOf(byPriority[i]) = rankOf(byPriority[j]) =>
                  byPriority[i].createdAt >= byPriority[j].createdAt

\* Three loaded tasks stored against their priority order, two of them of
\* equal priority, shown in filteredTasks in the order of the priority sort
C10_Witness ==
    /\ ~loadPending
    /\ state.currentSort = "priority"
    /\ Len(state.tasks) = 3
    /\ rankOf(state.tasks[1]) < rankOf(state.tasks[2])
    /\ rankOf(state.tasks[2]) = rankOf(state.tasks[3])
    /\ state.tasks[2].createdAt < state.tasks[3].createdAt
    /\ state.filteredTasks = byPriority
    /\ state.filteredTasks # state.tasks


\* The last recorded action, and whether an earlier addTask created task id
lastRecorded == history[Len(history)].action

createdByAddTask(id) ==
    \E k \in 1..Len(history) :
        /\ history[k].action.type = "ADD_TASK"
        /\ history[k].action.task.id = id

\* The last recorded action was toggleTaskComplete(id) completing the task
toggledComplete(id) ==
    /\ Len(history) > 0
    /\ lastRecorded.type = "UPDATE_TASK"
    /\ lastRecorded.taskId = id
    /\ lastRecorded.updates = [completed |-> TRUE]

idInFiltered(id) ==
    \E j \in 1..Len(state.filteredTasks) : state.filteredTasks[j].id = id

\* C11: once a task created by addTask has been toggled complete, it is not
\* in filteredTasks under filter 'active' and is in it under 'completed';
\* once that toggle has been undone, it is in filteredTasks under 'active'.
C11_ToggleMovesTaskBetweenFilters ==
    \A id \in 1..MaxIds :
        (createdByAddTask(id) /\ toggledComplete(id)) =>
            /\ (historyIndex = Len(history) - 1 /\ state.tasks = snapS1) =>
                  /\ state.currentFilter = "active" => ~idInFiltered(id)
                  /\ state.currentFilter = "completed" => idInFiltered(id)
            /\ (historyIndex = Len(history) - 2 /\ state.tasks = snapS.tasks) =>
                  /\ state.currentFilter = "active" => idInFiltered(id)
                  /\ state.currentFilter = "completed" => ~idInFiltered(id)

\* An added task was toggled complete, the toggle was undone and the filter
\* was then set to 'active': the task is shown
C11_Witness ==
    /\ \E id \in 1..MaxIds :
          /\ createdByAddTask(id)
          /\ toggledComplete(id)
          /\ idInFiltered(id)
    /\ historyIndex = Len(history) - 2
    /\ state.tasks = snapS.tasks
    /\ lastOp = "setActiveFilter"
    /\ state.currentFilter = "active"
    /\ undos = 0


\* Two task records that differ at most in order and updatedAt
sameTask(a, b) ==
    [a EXCEPT !.order = 0, !.updatedAt = 0] = [b EXCEPT !.order = 0, !.updatedAt = 0]

\* C12: a reorder leaves a collection of the same length that holds every
\* task it held before (order and updatedAt aside), and the task at position
\* i, counted from 0, has order i.
C12_ReorderRenumbers ==
    [][ lastOp' = "reorderTasks" =>
          /\ Len(state'.tasks) = Len(state.tasks)
          /\ \A i \in 1..Len(state.tasks) :
                \E j \in 1..Len(state'.tasks) :
                    sameTask(state.tasks[i], state'.tasks[j])
          /\ \A i \in 1..Len(state'.tasks) : state'.tasks[i].order = i - 1 ]_vars

\* The two persisted tasks and a task added in this session, after the
\* added task was dragged to the front
C12_Witness ==
    /\ lastOp = "reorderTasks"
    /\ Len(state.tasks) = 3
    /\ state.tasks[1].id = 1
    /\ state.tasks[1].order = 0
    /\ state.tasks[3].id = 12
    /\ state.tasks[3].order = 2

\* Position of the task with this id in what reorderTasks makes of the
\* current collection
placedAt(id, draggedId, targetId, insertAfter) ==
    findIndex(reorderTasks(M, shared, draggedId, targetId, insertAfter, now)
                  .m.state.tasks, id)

\* C13: whichever rendered task is dropped on whichever other one, the
\* dragged task ends up right after the target when insertAfter is true and
\* right before it when insertAfter is false.
C13_ReorderPlacesNextToTarget ==
    \A draggedId, targetId \in RenderedIds, insertAfter \in BOOLEAN :
        draggedId # targetId =>
            placedAt(draggedId, draggedId, targetId, insertAfter) =
                placedAt(targetId, draggedId, targetId, insertAfter)
                    + (IF insertAfter THEN 1 ELSE -1)

\* The operations that change tasks
MutatingOps ==
    {"addTask", "updateTask", "deleteTask", "toggleTaskComplete",
     "clearCompleted", "bulkComplete", "bulkDelete", "bulkSetPriority",
     "reorderTasks"}

\* C14: each task-mutating operation that does not return false pushes
\* exactly one history entry: the history is cut at the position and gets one
\* entry holding the state before the operation, and the position is on that
\* entry, so that the next undo() restores that state.
C14_EveryMutationIsRecorded ==
    [][ (lastOp' \in MutatingOps /\ lastRet'.kind # "false") =>
          /\ Len(history') =
                (IF historyIndex + 2 > historySize THEN historySize
                 ELSE historyIndex + 2)
          /\ historyIndex' = Len(history') - 1
          /\ history'[Len(history')].prevState = deepClone(state) ]_vars


\* The step pushed exactly one history entry, holding the state before it
pushedOneEntry ==
    /\ Len(history') =
          (IF historyIndex + 2 > historySize THEN historySize ELSE historyIndex + 2)
    /\ historyIndex' = Len(history') - 1
    /\ history'[Len(history')].prevState = deepClone(state)

\* tasks and tasks' hold the same tasks in the same places, those with an id
\* of ids changed in this field (and in updatedAt) and the others untouched
changedExactly(ids, field, value) ==
    /\ Len(state'.tasks) = Len(state.tasks)
    /\ \A i \in 1..Len(state.tasks) :
          IF state.tasks[i].id \in ids
          THEN [state'.tasks[i] EXCEPT !.updatedAt = 0] =
                   [state.tasks[i] EXCEPT ![field] = value, !.updatedAt = 0]
          ELSE state'.tasks[i] = state.tasks[i]

\* What undo() makes of the StateManager the step leaves
undoneNext ==
    undo([state |-> state', history |-> history', historyIndex |-> historyIndex',
          timeout |-> timeout', calls |-> NoCalls])

\* C15: a bulk operation changes every task whose id is in the id list it was
\* handed and no other task, pushes exactly one history entry, calls emit()
\* exactly once, and one undo() gives back the tasks as they were.
C15_BulkOperationsAreAtomic ==
    [][ lastOp' \in {"bulkComplete", "bulkDelete", "bulkSetPriority"} =>
          LET action == history'[Len(history')].action
              stays(task) == task.id \notin action.taskIds
          IN /\ pushedOneEntry
             /\ lastCalls'.emit = 1
             /\ lastOp' = "bulkComplete" =>
                   changedExactly(action.taskIds, "completed", TRUE)
             /\ lastOp' = "bulkSetPriority" =>
                   changedExactly(action.taskIds, "priority", action.priority)
             /\ lastOp' = "bulkDelete" =>
                   state'.tasks = SelectSeq(state.tasks, stays)
             /\ undoneNext.ret.kind = "true"
             /\ undoneNext.m.state.tasks = state.tasks ]_vars

\* bulkSetPriority on two tasks has been undone: both have their priority back
C15_Witness ==
    /\ chain = "AU"
    /\ history[historyIndex + 2].action.type = "BULK_SET_PRIORITY"
    /\ Cardinality(history[historyIndex + 2].action.taskIds) = 2
    /\ Len(state.tasks) = 2
    /\ \A i \in 1..2 :
          /\ snapS1[i].priority = "high"
          /\ state.tasks[i].priority # "high"


\* C16: clearCompleted() leaves exactly the tasks that were not completed,
\* unchanged and in their order, so that no task left is completed; it pushes
\* one history entry and returns the number of tasks it removed.
C16_ClearCompletedRemovesCompleted ==
    [][ lastOp' = "clearCompleted" =>
          /\ state'.tasks = SelectSeq(state.tasks, notCompleted)
          /\ \A i \in 1..Len(state'.tasks) : ~state'.tasks[i].completed
          /\ pushedOneEntry
          /\ history'[Len(history')].action.type = "CLEAR_COMPLETED"
          /\ lastRet'.kind = "number"
          /\ lastRet'.num = Len(state.tasks) - Len(state'.tasks) ]_vars

\* clearCompleted() has removed the completed one of two tasks
C16_Witness ==
    /\ lastOp = "clearCompleted"
    /\ lastRet.num = 1
    /\ Len(snapS.tasks) = 2
    /\ snapS.tasks[2].completed
    /\ state.tasks = <<snapS.tasks[1]>>
    /\ historyIndex = Len(history) - 1


\* C17: deleteTask(id) leaves the other tasks, unchanged and in their order,
\* and no task with this id; afterwards selectedTasks is a set and id is not
\* in it.
C17_DeleteRemovesTaskAndSelection ==
    [][ lastOp' = "deleteTask" =>
          LET id == history'[Len(history')].action.taskId
              others(task) == task.id # id
          IN /\ state'.tasks = SelectSeq(state.tasks, others)
             /\ \A i \in 1..Len(state'.tasks) : state'.tasks[i].id # id
             /\ state'.selectedTasks.isSet
             /\ id \notin state'.selectedTasks.ids ]_vars


\* C18: called with an id that no task has, updateTask and toggleTaskComplete
\* return false and leave the StateManager as it was -- state (tasks and
\* filteredTasks in it), history and position -- without calling emit() or
\* debouncedSave().
C18_MissingIdIsNoOp ==
    \A taskId \in HeldIds \ TaskIds, t \in Times :
        /\ \A updates \in Updates :
              updateTask(M, taskId, updates, TRUE, t) =
                  Outcome(M, Ret("false"), FALSE)
        /\ toggleTaskComplete(M, taskId, TRUE, t) = Outcome(M, Ret("false"), FALSE)

\* toggleTaskComplete was called for a task deleted before, with tasks and
\* history entries at hand: it returned false
C18_Witness ==
    /\ lastOp = "toggleTaskComplete"
    /\ lastRet.kind = "false"
    /\ lastCalls = NoCalls
    /\ state.tasks # <<>>
    /\ history # <<>>
    /\ history[Len(history)].action.type = "DELETE_TASK"


\* taskData objects whose title is empty once trimmed
BlankDrafts ==
    { [title |-> <<>>, dueAt |-> Null, priority |-> "", tags |-> <<>>],
      [title |-> <<" ", " ">>, dueAt |-> 1, priority |-> "high",
       tags |-> << <<"A">> >>] }

\* C19: addTask handed a title that is empty after trimming appends no task
\* and pushes no history entry: tasks and history are as before the call.
C19_AddTaskRejectsBlankTitle ==
    \A taskData \in BlankDrafts, t \in Times :
        LET after == addTask(M, taskData, TRUE, t, nextId).m
        IN /\ after.state.tasks = state.tasks
           /\ after.history = history
           /\ after.historyIndex = historyIndex


\* C20: undo() with the position below 0 and redo() with the position on the
\* last entry return false and leave the StateManager as it was -- state
\* (tasks and filter fields in it), history and position -- without calling
\* emit().
C20_RefusedUndoRedoAreNoOps ==
    /\ historyIndex < 0 => undo(M) = Outcome(M, Ret("false"), FALSE)
    /\ historyIndex >= Len(history) - 1 =>
          \A t \in Times : redo(M, t, nextId) = Outcome(M, Ret("false"), FALSE)

\* With every recorded action undone, one more undo() has been refused
C20_Witness ==
    /\ lastOp = "undo"
    /\ lastRet.kind = "false"
    /\ lastCalls = NoCalls
    /\ historyIndex = -1
    /\ Len(history) >= 2
    /\ state.tasks # <<>>

\* C21: undo() and redo() never add, remove or alter history entries: the
\* history is the same before and after the call, an undo() that returns true
\* lowers the position by exactly 1 and a redo() that returns true raises it
\* by exactly 1.
C21_UndoRedoLeaveHistoryAlone ==
    [][ /\ lastOp' \in {"undo", "redo"} => history' = history
        /\ (lastOp' = "undo" /\ lastRet'.kind = "true") =>
              historyIndex' = historyIndex - 1
        /\ (lastOp' = "redo" /\ lastRet'.kind = "true") =>
              historyIndex' = historyIndex + 1 ]_vars

\* Two recorded actions, then an undo() and a redo() that both returned true
C21_Witness ==
    /\ chain = "AUR"
    /\ lastOp = "redo"
    /\ lastRet.kind = "true"
    /\ Len(history) = 2
    /\ historyIndex = 1

\* C22: persistence is debounced.  At most one save timer is pending; a step
\* that called debouncedSave() leaves exactly one pending; and when the timer
\* fires after the initial load has resolved, ending a burst of mutations,
\* exactly one Storage.save call is made, with the state after the last
\* mutation as payload, and no timer stays pending.
C22_DebouncedSave ==
    /\ timeout.stray = 0
    /\ lastCalls.debouncedSave > 0 => timeout.armed
    /\ (lastOp = "saveTimer" /\ ~loadPending) =>
          /\ lastCalls.save = payload(state)
          /\ pendingTimers(timeout) = {}

C24_FailedSaveIsNotFatal ==
    [][ /\ (lastOp' = "saveTimer" /\ lastCalls'.rejected) =>
              /\ state' = state
              /\ history' = history
              /\ historyIndex' = historyIndex
              /\ storage' = storage
              /\ lastRet'.kind # "throws"
        /\ (saveFailed /\ lastOp' = "addTask") =>
              /\ Len(state'.tasks) = Len(state.tasks) + 1
              /\ SubSeq(state'.tasks, 1, Len(state.tasks)) = state.tasks
              /\ state'.tasks[Len(state'.tasks)].id = nextId
        /\ (saveFailed /\ lastOp' = "undo" /\ lastRet'.kind = "true") =>
              state'.tasks = history[historyIndex + 1].prevState.tasks
        /\ (saveFailed /\ lastCalls'.debouncedSave > 0) => timeout'.armed ]_vars

\* A save was rejected, and a task added after it is in memory with a new
\* save timer pending
C24_Witness ==
    /\ saveFailed
    /\ lastOp = "addTask"
    /\ state.tasks # <<>>
    /\ state.tasks[Len(state.tasks)].id = 2
    /\ timeout.armed
    /\ storage.tasks # state.tasks

\* The tasks of an imported file have pairwise distinct ids
distinctIds(tasks) ==
    \A i, j \in 1..Len(tasks) : tasks[i].id = tasks[j].id => i = j

\* C25: the import merge is last-write-wins per id.  For every file whose
\* tasks have distinct ids, the merged tasks hold every local task X
\* (updatedAt T1) in its place -- X itself when the file has no task with its
\* id or T1 > T2, else the incoming task (updatedAt T2), T1 = T2 included --
\* followed by the incoming tasks whose ids are not present locally.
C25_ImportIsLastWriteWins ==
    \A importedData \in ValidImports :
        LET incoming == importedData.tasks.items
            local == storage.tasks
            merged == importData(storage, importedData, TRUE, TRUE).data.tasks
            isNew(task) == task.id \notin idsOf(local)
        IN distinctIds(incoming) =>
            /\ Len(merged) >= Len(local)
            /\ \A i \in 1..Len(local) :
                  LET j == findIndex(incoming, local[i].id)
                  IN merged[i] = IF j > 0 /\ ~(local[i].updatedAt > incoming[j].updatedAt)
                                 THEN incoming[j]
                                 ELSE local[i]
            /\ SubSeq(merged, Len(local) + 1, Len(merged)) = SelectSeq(incoming, isNew)

\* C26: an import whose payload has no tasks array is rejected as a whole and
\* mutates nothing.  For every such file, and whether or not Storage.load and
\* Storage.save would resolve, importData is rejected, handleImport shows
\* the error toast, and the persisted data and the StateManager (tasks,
\* filter fields, history, position; no emit() and no debouncedSave() call)
\* are as they were.
C26_InvalidImportMutatesNothing ==
    \A importedData \in InvalidImports, loads, saves \in BOOLEAN :
        /\ importData(storage, importedData, loads, saves).kind = "rejected"
        /\ handleImport(M, storage, importedData, loads, saves) =
              [m |-> M, ret |-> Ret("error"), rec |-> FALSE, stored |-> storage]

\* A file without a tasks array was refused with a task in memory that is not
\* persisted yet and an undone action in the history
C26_Witness ==
    /\ lastOp = "handleImport"
    /\ lastRet.kind = "error"
    /\ lastCalls = NoCalls
    /\ state.tasks # <<>>
    /\ state.tasks # storage.tasks
    /\ history # <<>>
    /\ timeout.armed

\* C27: task ids are pairwise distinct in tasks in every reachable state,
\* after any sequence of recorded actions, undo, redo, reorder and import.
C27_TaskIdsAreDistinct == distinctIds(state.tasks)

\* The file was imported, the tasks were reordered, and an undone addition
\* was redone on top of them
C27_Witness ==
    /\ lastOp = "redo"
    /\ lastRet.kind = "true"
    /\ idsOf(state.tasks) = {11, 31, 2}
    /\ Len(state.tasks) = 3
    /\ state.tasks[1].id = 31

\* C28: in every reachable state, the states reached by undo() included,
\* selectedTasks is a Set of task ids (has, add and delete are defined on
\* it), and no deleteTask or bulkDelete fails on it.
C28_SelectedTasksIsASet ==
    /\ state.selectedTasks.isSet
    /\ lastOp \in {"deleteTask", "bulkDelete"} => lastRet.kind # "throws"

\* C29: a setState call made with the render observer subscribed runs to
\* completion in bounded work: the setState calls nested in one another by
\* the chain emit -> render -> setActiveFilter -> setState stay below the
\* bound MaxDepth, and none ends in an exhausted call stack.
C29_SetStateReturns ==
    /\ stack < MaxDepth
    /\ lastRet.kind # "throws"

\* The sequence with the elements at i and j exchanged
exchanged(seq, i, j) == [seq EXCEPT ![i] = seq[j], ![j] = seq[i]]

\* C30: the projection is a total order that depends on the set of input
\* tasks only.  For every sort mode the comparator orders any two distinct
\* tasks of the collection strictly, and the collection with two of its
\* tasks exchanged yields the same filteredTasks.
C30_ProjectionIgnoresInputOrder ==
    \A sortType \in SortTypes, i, j \in 1..Len(state.tasks) :
        i # j =>
            /\ compareTasks(state.tasks[i], state.tasks[j], sortType) # 0
            /\ project(exchanged(state.tasks, i, j), state.currentFilter,
                       state.searchQuery, state.activeTagFilters, sortType)
                 = project(state.tasks, state.currentFilter, state.searchQuery,
                           state.activeTagFilters, sortType)

\* C31: once the initial load has completed, every mutation is eventually
\* followed by a save attempt.  From a state with the load settled and a
\* save timer pending, the process reaches a state in which the timer has
\* fired and saveToStorage has handed Storage.save the tasks and preferences
\* then in memory.
C31_MutationIsEventuallySaved ==
    (~loadPending /\ pendingTimers(timeout) # {})
        ~> (lastOp = "saveTimer" /\ lastCalls.save = payload(state))

\* C32: in every reachable state the history holds at most historySize
\* entries and the position satisfies -1 <= historyIndex <= history.length - 1.
C32_HistoryWithinBounds ==
    /\ Len(history) <= historySize
    /\ -1 <= historyIndex
    /\ historyIndex <= Len(history) - 1

\* C32 witness: after eleven recorded actions and undos, a redo() has brought
\* the position back to the last entry of a full history
C32_Witness_FullHistory ==
    /\ Len(history) = historySize
    /\ historyIndex = historySize - 1
    /\ acts = RunLength
    /\ lastOp = "redo"
    /\ lastRet.kind = "true"

\* C33: whenever redo() is enabled (historyIndex < history.length - 1), the
\* current tasks equal the tasks of the prior snapshot stored in the entry at
\* historyIndex + 1.
C33_RedoReplaysAgainstItsOwnState ==
    historyIndex < Len(history) - 1
        => state.tasks = history[historyIndex + 2].prevState.tasks

\* What a task holds apart from its id and the clock readings of the call
\* that wrote it
content(task) ==
    [title |-> task.title, notes |-> task.notes, completed |-> task.completed,
     dueAt |-> task.dueAt, priority |-> task.priority, tags |-> task.tags,
     parentId |-> task.parentId]

contents(tasks) == [i \in 1..Len(tasks) |-> content(tasks[i])]

\* The history holds addTask(T) and then a change of T, and nothing else
addedThenChanged ==
    /\ acts = 2
    /\ Len(history) = 2
    /\ history[1].action.type = "ADD_TASK"
    /\ history[2].action.type \in {"UPDATE_TASK", "TOGGLE_COMPLETE", "DELETE_TASK"}
    /\ history[2].action.taskId = history[1].action.task.id

\* C34: after addTask(T) followed by updateTask, toggleTaskComplete or
\* deleteTask on T, undoing both actions and then redoing both yields the same
\* task collection as before the undos.  The step is the second of the two
\* redos; the collection is compared task by task on every field but the id
\* and the timestamps.
C34_RedoChainRestoresTasks ==
    [][(/\ addedThenChanged
        /\ lastOp = "redo"
        /\ historyIndex = 0
        /\ lastOp' = "redo"
        /\ historyIndex' = 1)
           => contents(state'.tasks) = contents(snapS1)]_vars

\* The operations of the claim that can be called without changing a task
NoChangeOps ==
    {"deleteTask", "clearCompleted", "bulkComplete", "bulkDelete", "bulkSetPriority"}

\* C35: an operation that changes no task consumes no undo step.  A step of
\* deleteTask, clearCompleted or a bulk operation that leaves tasks as they
\* were leaves the history and the position unchanged, so that a pending redo
\* branch is kept.
C35_NoChangeConsumesNoUndoStep ==
    [][(lastOp' \in NoChangeOps /\ state'.tasks = state.tasks)
           => (history' = history /\ historyIndex' = historyIndex)]_vars

\* C36: a failed initial load never causes previously persisted tasks to be
\* overwritten by defaults.  When Storage.load has rejected, no mutation was
\* made and tasks are persisted, the save timer that fires next sends no save
\* with an empty task list to Storage.save.
C36_FailedLoadSavesNoDefaults ==
    [][(/\ lastOp = "loadDataFails"
        /\ acts = 0
        /\ storage.tasks # <<>>
        /\ lastOp' = "saveTimer"
        /\ lastCalls'.save # NoSave)
           => lastCalls'.save.tasks # <<>>]_vars

\* The collection holds the task, or a newer version of the task with its id
keeps(tasks, task) ==
    \E i \in 1..Len(tasks) :
        \/ tasks[i] = task
        \/ tasks[i].id = task.id /\ tasks[i].updatedAt > task.updatedAt

\* C37: import never loses local changes that are not yet persisted.  When a
\* task has been added in memory, its save timer is still pending and an
\* import succeeds, both the in-memory tasks and the persisted tasks after the
\* import hold the added task, or a newer incoming version of its id.
C37_ImportKeepsUnsavedChanges ==
    [][(/\ lastOp = "addTask"
        /\ pendingTimers(timeout) # {}
        /\ lastOp' = "handleImport"
        /\ lastRet'.kind = "success")
           => LET added == history[Len(history)].action.task
              IN /\ keeps(state'.tasks, added)
                 /\ keeps(storage'.tasks, added)]_vars

\* C38: isLoading is monotone.  It is true while the initial load is pending,
\* and no step of any operation takes it from false back to true.
C38_IsLoadingMonotone ==
    [][/\ loadPending => state.isLoading
       /\ ~state.isLoading => ~state'.isLoading]_vars

\* C39: a history entry is immutable once recorded.  A step that records no
\* action leaves every entry as it was; a step that records one leaves the
\* entries up to the position as they were (unless the history was full and
\* the oldest entry was dropped).
C39_HistoryEntriesAreImmutable ==
    [][/\ acts' = acts => history' = history
       /\ (acts' # acts /\ Len(history) < historySize)
             => \A k \in 1..(historyIndex + 1) : history'[k] = history[k]]_vars

\* The keys of the cache hold every request of the list
holds(keys, requests) ==
    \A i \in 1..Len(requests) : \E k \in 1..Len(keys) : keys[k] = requests[i]

\* The caches of the current version
CurrentCaches == {STATIC_CACHE_NAME, DYNAMIC_CACHE_NAME}

\* C40: service-worker cache cleanup never deletes a cache of the current
\* version.  A step of the activate handler or of the periodic cleanup keeps
\* the static and the dynamic cache of the current version when they exist,
\* keeps every entry of STATIC_FILES the static cache holds, and removes only
\* caches of other versions.
C40_CleanupKeepsCurrentCaches ==
    [][lastOp' \in {"activate", "periodicsync"}
          => /\ \A name \in CurrentCaches \cap DOMAIN caches : name \in DOMAIN caches'
             /\ (STATIC_CACHE_NAME \in DOMAIN caches
                    /\ holds(caches[STATIC_CACHE_NAME], STATIC_FILES))
                   => (STATIC_CACHE_NAME \in DOMAIN caches'
                          /\ holds(caches'[STATIC_CACHE_NAME], STATIC_FILES))
             /\ \A name \in DOMAIN caches \ DOMAIN caches' :
                   /\ startsWith(name, <<"todo-app-">>)
                   /\ name \notin CurrentCaches]_vars

====
